---- MODULE Spec2Model ----
(***************************************************************************)
(* Fill-in recommendation engine of the coach scheduling tool.             *)
(*                                                                         *)
(* Two runtime contexts are modelled from the source:                      *)
(*   - the edge function get-optimal-fill-ins (src/unnamed/part_000), the  *)
(*     batch recommender; its helpers carry the suffix Edge here because   *)
(*     the client modules define helpers of the same names;                *)
(*   - the client modules js/utils.js, js/schedule.js and the absence      *)
(*     module (src/js/logViewer.js), the interactive suggestion tool.      *)
(*                                                                         *)
(* Text that the code inspects character by character (availability        *)
(* strings, times, class names, block identifiers) is a sequence of        *)
(* one-character strings.  The empty sequence stands for both null and     *)
(* the empty string: every place of the source that reads such a field     *)
(* tests it for truthiness, which does not tell the two apart.             *)
(***************************************************************************)
EXTENDS Integers, Sequences, FiniteSets, TLC

(***************************************************************************)
(* Characters and JavaScript string primitives                             *)
(***************************************************************************)
Digits == <<"0", "1", "2", "3", "4", "5", "6", "7", "8", "9">>

UpperCase == <<"A", "B", "C", "D", "E", "F", "G", "H", "I", "J", "K", "L", "M",
               "N", "O", "P", "Q", "R", "S", "T", "U", "V", "W", "X", "Y", "Z">>

LowerCase == <<"a", "b", "c", "d", "e", "f", "g", "h", "i", "j", "k", "l", "m",
               "n", "o", "p", "q", "r", "s", "t", "u", "v", "w", "x", "y", "z">>

Range(s) == {s[i] : i \in DOMAIN s}

DigitSet == Range(Digits)

UpperSet == Range(UpperCase)

LetterSet == Range(UpperCase) \cup Range(LowerCase)

IsDigit(c) == c \in DigitSet

IsLetter(c) == c \in LetterSet

IsSpace(c) == c \in {" ", "\n", "\t"}

DigitValues == [c \in DigitSet |-> (CHOOSE i \in DOMAIN Digits : Digits[i] = c) - 1]

DigitVal(c) == DigitValues[c]

DigitChar(n) == Digits[n + 1]

\* String.prototype.toLowerCase, character by character
LowerOf == [c \in UpperSet |-> LowerCase[CHOOSE i \in DOMAIN UpperCase : UpperCase[i] = c]]

LowerChar(c) == IF c \in UpperSet THEN LowerOf[c] ELSE c

toLowerCase(s) == [i \in DOMAIN s |-> LowerChar(s[i])]

\* String.prototype.substring(from, to) with 0-based, end-exclusive indices
substring(s, from, to) ==
    LET hi == IF to > Len(s) THEN Len(s) ELSE to
        lo == IF from > Len(s) THEN Len(s) ELSE from
    IN  SubSeq(s, lo + 1, hi)

\* String.prototype.startsWith
startsWith(s, p) == Len(p) <= Len(s) /\ SubSeq(s, 1, Len(p)) = p

\* String.prototype.includes for a single character
includesChar(s, c) == \E i \in DOMAIN s : s[i] = c

RECURSIVE TrimLeft(_)
TrimLeft(s) ==
    IF s # <<>> /\ IsSpace(Head(s)) THEN TrimLeft(Tail(s)) ELSE s

RECURSIVE TrimRight(_)
TrimRight(s) ==
    IF s # <<>> /\ IsSpace(s[Len(s)]) THEN TrimRight(SubSeq(s, 1, Len(s) - 1)) ELSE s

\* String.prototype.trim
trim(s) == TrimRight(TrimLeft(s))

\* String.prototype.split(c) for a one-character separator: the pieces
\* between the separators, empty pieces included
RECURSIVE SplitAcc(_, _, _)
SplitAcc(s, c, cur) ==
    IF s = <<>> THEN <<cur>>
    ELSE IF Head(s) = c THEN <<cur>> \o SplitAcc(Tail(s), c, <<>>)
    ELSE SplitAcc(Tail(s), c, Append(cur, Head(s)))

split(s, c) == SplitAcc(s, c, <<>>)

\* parseInt(s): optional leading white space, then the longest run of
\* digits; << >> stands for NaN and <<n>> for the number n
RECURSIVE LeadingDigits(_)
LeadingDigits(s) ==
    IF s # <<>> /\ IsDigit(Head(s)) THEN <<Head(s)>> \o LeadingDigits(Tail(s)) ELSE <<>>

RECURSIVE DigitsValue(_)
DigitsValue(ds) ==
    IF ds = <<>> THEN 0
    ELSE 10 * DigitsValue(SubSeq(ds, 1, Len(ds) - 1)) + DigitVal(ds[Len(ds)])

parseInt(s) ==
    LET ds == LeadingDigits(TrimLeft(s))
    IN  IF ds = <<>> THEN <<>> ELSE <<DigitsValue(ds)>>

\* /^\d{2}:\d{2}$/.test(s)
timeRegex(s) ==
    /\ Len(s) = 5
    /\ IsDigit(s[1]) /\ IsDigit(s[2]) /\ s[3] = ":" /\ IsDigit(s[4]) /\ IsDigit(s[5])


(***************************************************************************)
(* Day names                                                               *)
(***************************************************************************)
Monday == <<"M", "o", "n", "d", "a", "y">>

Tuesday == <<"T", "u", "e", "s", "d", "a", "y">>

Wednesday == <<"W", "e", "d", "n", "e", "s", "d", "a", "y">>

Thursday == <<"T", "h", "u", "r", "s", "d", "a", "y">>

Friday == <<"F", "r", "i", "d", "a", "y">>

Saturday == <<"S", "a", "t", "u", "r", "d", "a", "y">>

Sunday == <<"S", "u", "n", "d", "a", "y">>

validDays == {Monday, Tuesday, Wednesday, Thursday, Friday, Saturday, Sunday}

\* the validDays of parseAvailability, lower case
validDaysLower == {toLowerCase(day) : day \in validDays}

(***************************************************************************)
(* Availability, edge function dialect (part_000 isStudentAvailable).      *)
(* The availability object is the set of <<day, "HH:MM">> pairs pushed.    *)
(***************************************************************************)
\* availability with timePart pushed on day, if timePart passes timeRegex
PushTime(availability, day, timePart) ==
    IF timeRegex(timePart) THEN availability \cup {<<day, timePart>>} ELSE availability

\* validDays.find(day => entry.startsWith(day + ':')): << >> if none
FindDay(entry) ==
    IF \E day \in validDays : startsWith(entry, day \o <<":">>)
    THEN CHOOSE day \in validDays : startsWith(entry, day \o <<":">>)
    ELSE <<>>

\* The time part of an entry that starts with foundDay + ':'
DayTimePart(entry, foundDay) ==
    substring(trim(substring(entry, Len(foundDay) + 1, Len(entry))), 0, 5)

RECURSIVE EdgeAvailabilityEntries(_, _, _)
\* One entry of the forEach, trimmed, with the day it starts with
EdgeEntry(rest, entry, foundDay, currentDay, availability) ==
    IF entry = <<>> THEN EdgeAvailabilityEntries(rest, currentDay, availability)
    ELSE IF foundDay # <<>>
    THEN EdgeAvailabilityEntries(rest, foundDay,
             PushTime(availability, foundDay, DayTimePart(entry, foundDay)))
    ELSE IF currentDay # <<>>
    THEN EdgeAvailabilityEntries(rest, currentDay,
             PushTime(availability, currentDay, substring(entry, 0, 5)))
    ELSE EdgeAvailabilityEntries(rest, currentDay, availability)

EdgeTrimmedEntry(rest, entry, currentDay, availability) ==
    EdgeEntry(rest, entry, FindDay(entry), currentDay, availability)

EdgeAvailabilityEntries(entries, currentDay, availability) ==
    IF entries = <<>> THEN availability
    ELSE EdgeTrimmedEntry(Tail(entries), trim(Head(entries)), currentDay, availability)

isStudentAvailableEdge(availabilityString, targetDay, targetTime) ==
    LET targetTimeHHMM == substring(targetTime, 0, 5)
    IN  IF availabilityString = <<>> \/ targetDay = <<>> \/ targetTime = <<>>
           \/ Len(targetTime) < 5
        THEN FALSE
        ELSE IF ~timeRegex(targetTimeHHMM) THEN FALSE
        ELSE <<targetDay, targetTimeHHMM>> \in
                 EdgeAvailabilityEntries(split(availabilityString, ";"), <<>>, {})

(***************************************************************************)
(* Availability, client dialect (js/utils.js).  A Date at the epoch day is *)
(* its minute of the day; << >> is null, <<m>> the time m.                 *)
(***************************************************************************)
IsDigits(s, lo, hi) ==
    Len(s) >= lo /\ Len(s) <= hi /\ \A i \in DOMAIN s : IsDigit(s[i])

\* The am/pm suffix the regular expressions capture, << >> if none
PeriodOf(s) ==
    IF Len(s) >= 2 /\ SubSeq(s, Len(s) - 1, Len(s)) \in {<<"a", "m">>, <<"p", "m">>}
    THEN SubSeq(s, Len(s) - 1, Len(s)) ELSE <<>>

\* hours += 12 for pm and 1..11, hours = 0 for 12 am
AdjustHours(hours, period) ==
    IF period = <<"p", "m">> /\ hours >= 1 /\ hours <= 11 THEN hours + 12
    ELSE IF period = <<"a", "m">> /\ hours = 12 THEN 0
    ELSE hours

\* The range test and new Date(0).setUTCHours(hours, minutes, 0, 0)
ClockTime(hours, minutes) ==
    IF hours < 0 \/ hours > 23 \/ minutes < 0 \/ minutes > 59 THEN <<>>
    ELSE <<hours * 60 + minutes>>

\* The three regular expressions, tried in order on the trimmed lower-case
\* string s: parts are the pieces between the colons of s without its suffix
\*   /^(\d{1,2}):(\d{2}):(\d{2})\s*(am|pm)?$/
\*   /^(\d{1,2}):(\d{2})\s*(am|pm)?$/
\*   /^(\d{2})(\d{2})$/
MatchTime(s, period, parts) ==
    IF /\ Len(parts) \in {2, 3}
       /\ IsDigits(parts[1], 1, 2)
       /\ IsDigits(parts[2], 2, 2)
       /\ Len(parts) = 3 => IsDigits(parts[3], 2, 2)
    THEN ClockTime(AdjustHours(DigitsValue(parts[1]), period), DigitsValue(parts[2]))
    ELSE IF IsDigits(s, 4, 4)
    THEN ClockTime(DigitsValue(SubSeq(s, 1, 2)), DigitsValue(SubSeq(s, 3, 4)))
    ELSE <<>>

ParseTrimmed(s, period) ==
    MatchTime(s, period,
              split(IF period # <<>> THEN TrimRight(SubSeq(s, 1, Len(s) - 2)) ELSE s, ":"))

ParseLowered(s) == ParseTrimmed(s, PeriodOf(s))

parseTime(timeString) ==
    IF timeString = <<>> THEN <<>>
    ELSE ParseLowered(toLowerCase(trim(timeString)))

formatTime(date) ==
    IF date = <<>> THEN <<>>
    ELSE LET hours   == (date[1] \div 60) % 24
             minutes == date[1] % 60
         IN  <<DigitChar(hours \div 10), DigitChar(hours % 10), ":",
               DigitChar(minutes \div 10), DigitChar(minutes % 10)>>

\* availabilityString.split(/\n|;(?=\s*[A-Za-z])/)
RECURSIVE SplitEntriesAcc(_, _)
SplitEntriesAcc(s, cur) ==
    IF s = <<>> THEN <<cur>>
    ELSE LET rest == TrimLeft(Tail(s))
             cut  == \/ Head(s) = "\n"
                     \/ Head(s) = ";" /\ rest # <<>> /\ IsLetter(Head(rest))
         IN  IF cut THEN <<cur>> \o SplitEntriesAcc(Tail(s), <<>>)
             ELSE SplitEntriesAcc(Tail(s), Append(cur, Head(s)))

\* ....map(e => e.trim()).filter(e => e)
RECURSIVE TrimAndDropEmpty(_)
TrimAndDropEmpty(seq) ==
    IF seq = <<>> THEN <<>>
    ELSE IF trim(Head(seq)) = <<>> THEN TrimAndDropEmpty(Tail(seq))
    ELSE <<trim(Head(seq))>> \o TrimAndDropEmpty(Tail(seq))

FirstIndexOf(s, c) ==
    IF includesChar(s, c) THEN CHOOSE i \in DOMAIN s : s[i] = c /\ \A j \in 1..(i - 1) : s[j] # c
    ELSE 0

\* The while loop of a range: startTime, startTime + 30 min, ... while
\* currentTime <= endTime; nothing unless startTime < endTime
RangeTimes(startTime, endTime) ==
    IF startTime # <<>> /\ endTime # <<>> /\ startTime[1] < endTime[1]
    THEN {formatTime(<<t>>) : t \in {u \in startTime[1]..endTime[1] :
                                        (u - startTime[1]) % 30 = 0}}
    ELSE {}

\* A single time
SingleTime(parsedTime) ==
    IF parsedTime # <<>> THEN {formatTime(parsedTime)} ELSE {}

\* const [startStr, endStr] = time.split('-')
RangeOfParts(parts) == RangeTimes(parseTime(parts[1]), parseTime(parts[2]))

\* The time points one <time-spec> adds to its day's Set
TimeSpecPoints(time) ==
    IF includesChar(time, "-") THEN RangeOfParts(split(time, "-"))
    ELSE SingleTime(parseTime(time))

\* The times of one entry, for its day
TimesOfDay(day, times) ==
    UNION {{<<day, t>> : t \in TimeSpecPoints(times[i])} : i \in DOMAIN times}

DayAndTimes(day, timePart) ==
    IF day \notin validDaysLower THEN {}
    ELSE IF timePart = <<>> THEN {}
    ELSE TimesOfDay(day, TrimAndDropEmpty(split(timePart, ";")))

\* entry.split(/:(.+)/): the entry cut at its first colon
EntryAtColon(entry, colon) ==
    IF colon = 0 \/ colon = Len(entry) THEN {}
    ELSE DayAndTimes(toLowerCase(trim(SubSeq(entry, 1, colon - 1))),
                     trim(SubSeq(entry, colon + 1, Len(entry))))

\* One entry "<Day>: <time-spec>[;<time-spec>...]" of the forEach
EntryPoints(entry) == EntryAtColon(entry, FirstIndexOf(entry, ":"))

AllEntryPoints(entries) == UNION {EntryPoints(entries[i]) : i \in DOMAIN entries}

parseAvailability(availabilityString) ==
    IF availabilityString = <<>> THEN {}
    ELSE AllEntryPoints(TrimAndDropEmpty(SplitEntriesAcc(availabilityString, <<>>)))

\* availability[lowerDay] && availability[lowerDay].has(targetTimeFormatted)
HasTime(parsedAvailability, lowerDay, targetTimeFormatted) ==
    IF targetTimeFormatted = <<>> THEN FALSE
    ELSE <<lowerDay, targetTimeFormatted>> \in parsedAvailability

isStudentAvailable(studentDetails, targetDay, targetTime) ==
    IF targetDay = <<>> \/ targetTime = <<>> THEN FALSE
    ELSE HasTime(parseAvailability(studentDetails.availability_string),
                 toLowerCase(targetDay), formatTime(parseTime(targetTime)))


(***************************************************************************)
(* Block model.  A date is an atomic string, "" when absent.               *)
(***************************************************************************)
NoDate == ""

\* BlockApplies with the Year Level Absence case comparing the class name
\* with === instead of startsWith
BlockAppliesYearLevelExact(studentDetails, blockDate, coachId, block) ==
    IF block.block_date # blockDate THEN FALSE
    ELSE CASE block.block_type = "Public Holiday" -> TRUE
           [] block.block_type \in {"Year Level Absence", "Class Absence"} ->
                  /\ block.identifier # <<>>
                  /\ studentDetails.class_name = block.identifier
           [] block.block_type = "Coach Unavailable" ->
                  /\ block.identifier # <<>>
                  /\ parseInt(block.identifier) = <<coachId>>
           [] OTHER -> FALSE

\* The body of the for loop of isStudentBlocked for one block: TRUE where
\* the loop returns true
BlockApplies(studentDetails, blockDate, coachId, block) ==
    IF block.block_date # blockDate THEN FALSE
    ELSE CASE block.block_type = "Public Holiday" -> TRUE
           [] block.block_type = "Year Level Absence" ->
                  /\ block.identifier # <<>>
                  /\ studentDetails.class_name # <<>>
                  /\ startsWith(studentDetails.class_name, block.identifier)
           [] block.block_type = "Class Absence" ->
                  /\ block.identifier # <<>>
                  /\ studentDetails.class_name # <<>>
                  /\ studentDetails.class_name = block.identifier
           [] block.block_type = "Coach Unavailable" ->
                  /\ block.identifier # <<>>
                  /\ parseInt(block.identifier) = <<coachId>>
           [] OTHER -> FALSE

RECURSIVE BlockLoop(_, _, _, _)
BlockLoop(studentDetails, blockDate, coachId, blocks) ==
    IF blocks = <<>> THEN FALSE
    ELSE IF BlockApplies(studentDetails, blockDate, coachId, Head(blocks)) THEN TRUE
    ELSE BlockLoop(studentDetails, blockDate, coachId, Tail(blocks))

\* part_000 isStudentBlocked
isStudentBlockedEdge(studentDetails, blockDate, coachId, blocks) ==
    IF blockDate = NoDate THEN FALSE
    ELSE BlockLoop(studentDetails, blockDate, coachId, blocks)

\* logViewer.js isStudentBlocked (the same loop without the case 'Other')
isStudentBlocked(studentDetails, blockDate, coachId, blocks) ==
    IF blockDate = NoDate THEN FALSE
    ELSE BlockLoop(studentDetails, blockDate, coachId, blocks)

(***************************************************************************)
(* Pairing rules                                                           *)
(***************************************************************************)
NoSubGroup == "null"

\* part_000 checkPairingRuleViolation without its solo rule
checkPairingRuleViolationEdgeNoSolo(candidateDetails, currentOccupantsDetails, capacity) ==
    LET potentialOccupantsDetails == Append(currentOccupantsDetails, candidateDetails)
        potentialOccupantCount    == Len(potentialOccupantsDetails)
        potentialPairedCount      ==
            Cardinality({i \in DOMAIN potentialOccupantsDetails :
                            potentialOccupantsDetails[i].groupOf = 2})
    IN  IF potentialOccupantCount > capacity
        THEN [violation |-> TRUE, reason |-> "Slot capacity would be exceeded"]
        ELSE IF potentialPairedCount > 0 /\ potentialOccupantCount > 2
        THEN [violation |-> TRUE, reason |-> "Paired lessons cannot have more than 2"]
        ELSE [violation |-> FALSE, reason |-> ""]

\* part_000 checkPairingRuleViolation, lines 66-75, without its paired rule
PairingRulesEdgeNoPaired(potentialOccupantCount, potentialSoloCount, potentialPairedCount, capacity) ==
    IF potentialOccupantCount > capacity
    THEN [violation |-> TRUE, reason |-> "Slot capacity would be exceeded"]
    ELSE IF potentialSoloCount > 0 /\ potentialOccupantCount > 1
    THEN [violation |-> TRUE, reason |-> "Solo lessons cannot have other students"]
    ELSE [violation |-> FALSE, reason |-> ""]

\* part_000 checkPairingRuleViolation, lines 66-75: the rules, on the number
\* of potential occupants and the solo and paired students among them
PairingRulesEdge(potentialOccupantCount, potentialSoloCount, potentialPairedCount, capacity) ==
    IF potentialOccupantCount > capacity
    THEN [violation |-> TRUE, reason |-> "Slot capacity would be exceeded"]
    ELSE IF potentialSoloCount > 0 /\ potentialOccupantCount > 1
    THEN [violation |-> TRUE, reason |-> "Solo lessons cannot have other students"]
    ELSE IF potentialSoloCount = 0 /\ potentialPairedCount > 0
            /\ potentialOccupantCount > 2
    THEN [violation |-> TRUE, reason |-> "Paired lessons cannot exceed 2 students"]
    ELSE [violation |-> FALSE, reason |-> ""]

\* part_000 checkPairingRuleViolation
checkPairingRuleViolationEdge(candidateDetails, currentOccupantsDetails, capacity) ==
    LET potentialOccupantsDetails == Append(currentOccupantsDetails, candidateDetails)
    IN  IF candidateDetails.groupOf \notin Int
        THEN [violation |-> TRUE, reason |-> "Invalid candidate data."]
        ELSE IF capacity < 1
        THEN [violation |-> TRUE, reason |-> "Invalid slot capacity."]
        ELSE PairingRulesEdge(
                 Len(potentialOccupantsDetails),
                 Cardinality({i \in DOMAIN potentialOccupantsDetails :
                                 potentialOccupantsDetails[i].groupOf = 1}),
                 Cardinality({i \in DOMAIN potentialOccupantsDetails :
                                 potentialOccupantsDetails[i].groupOf = 2}),
                 capacity)

\* The first element of [...existingSubGroups]: a Set iterates in insertion
\* order, so it is the sub-group of the first occupant that has one
RECURSIVE FirstSubGroup(_)
FirstSubGroup(occupants) ==
    IF occupants = <<>> THEN NoSubGroup
    ELSE IF Head(occupants).sub_group # NoSubGroup THEN Head(occupants).sub_group
    ELSE FirstSubGroup(Tail(occupants))

\* js/utils.js checkPairingRuleViolation, lines 295-349: the rules, on the
\* new student's group size and sub-group, the number of occupants, the set
\* of their numeric group sizes and the sub-group they established
PairingRules(newStudentGroup, newSubGroup, currentOccupants, existingGroupTypes, establishedSubGroup, slotCapacity) ==
    IF currentOccupants + 1 > slotCapacity
    THEN [violation |-> TRUE, reason |-> "Adding student exceeds slot capacity."]
    ELSE IF newStudentGroup = 1 /\ currentOccupants > 0
    THEN [violation |-> TRUE, reason |-> "Cannot add a Solo student to an occupied slot."]
    ELSE IF newStudentGroup = 2 /\ 1 \in existingGroupTypes
    THEN [violation |-> TRUE, reason |-> "Cannot add Paired student to a Solo slot."]
    ELSE IF newStudentGroup = 2 /\ existingGroupTypes # {} /\ 2 \notin existingGroupTypes
    THEN [violation |-> TRUE, reason |-> "Cannot mix Paired students with Group students."]
    ELSE IF newStudentGroup = 2 /\ currentOccupants + 1 > 2 /\ currentOccupants > 0
    THEN [violation |-> TRUE, reason |-> "Cannot exceed 2 students in a Paired slot."]
    ELSE IF newStudentGroup \notin {1, 2} /\ 1 \in existingGroupTypes
    THEN [violation |-> TRUE, reason |-> "Cannot add Group student to a Solo slot."]
    ELSE IF newStudentGroup \notin {1, 2} /\ 2 \in existingGroupTypes
    THEN [violation |-> TRUE, reason |-> "Cannot add Group student to a Paired slot."]
    ELSE IF establishedSubGroup # NoSubGroup /\ newSubGroup # NoSubGroup
            /\ newSubGroup # establishedSubGroup
    THEN [violation |-> TRUE, reason |-> "Cannot mix sub-groups."]
    ELSE [violation |-> FALSE, reason |-> ""]

\* js/utils.js checkPairingRuleViolation
checkPairingRuleViolation(newStudentDetails, currentOccupantDetails, slotCapacity) ==
    IF newStudentDetails.groupOf \notin Int
    THEN [violation |-> TRUE, reason |-> "Invalid new student data."]
    ELSE IF slotCapacity < 1
    THEN [violation |-> TRUE, reason |-> "Invalid slot capacity."]
    ELSE PairingRules(newStudentDetails.groupOf, newStudentDetails.sub_group,
                      Len(currentOccupantDetails),
                      {currentOccupantDetails[i].groupOf : i \in DOMAIN currentOccupantDetails},
                      FirstSubGroup(currentOccupantDetails), slotCapacity)

(***************************************************************************)
(* The pairing checkers called with arbitrary JavaScript arguments.  A     *)
(* JavaScript value is a record of its type and, for a number, a string,   *)
(* an array or an object, its value; an object here is a student's         *)
(* details [groupOf, sub_group], groupOf itself a JavaScript value.        *)
(***************************************************************************)
JsNull == [type |-> "null"]

JsUndefined == [type |-> "undefined"]

JsNumber(n) == [type |-> "number", value |-> n]

JsString(s) == [type |-> "string", value |-> s]

JsArray(elements) == [type |-> "array", value |-> elements]

JsObject(fields) == [type |-> "object", value |-> fields]

\* typeof v
TypeOf(v) == IF v.type \in {"null", "array"} THEN "object" ELSE v.type

\* !v is false
Truthy(v) ==
    CASE v.type \in {"null", "undefined"} -> FALSE
      [] v.type = "number" -> v.value # 0
      [] v.type = "string" -> v.value # ""
      [] OTHER -> TRUE

\* v.groupOf: a TypeError on null and undefined, undefined on a value
\* that has no such property
GroupOfOf(v) ==
    IF v.type \in {"null", "undefined"} THEN [type |-> "TypeError"]
    ELSE IF v.type = "object" THEN v.value.groupOf
    ELSE JsUndefined

\* v?.sub_group || null
SubGroupOf(v) == IF v.type = "object" THEN v.value.sub_group ELSE NoSubGroup

\* What a call gave: the object returned, or the exception thrown
Returned(result) ==
    [thrown |-> FALSE, violation |-> result.violation, reason |-> result.reason]

Thrown == [thrown |-> TRUE, violation |-> FALSE, reason |-> ""]

\* part_000:70: (details && typeof details.groupOf === 'number') ? details.groupOf : 1
GroupSizeOf(details) ==
    IF ~Truthy(details) THEN 1
    ELSE IF TypeOf(GroupOfOf(details)) = "number" THEN GroupOfOf(details).value
    ELSE 1

\* part_000 checkPairingRuleViolation without Array.isArray: the spread of
\* a value that is no array throws
checkPairingRuleViolationEdgeCallNoArrayCheck(candidateDetails, currentOccupantsDetails, capacity) ==
    IF ~Truthy(candidateDetails)
    THEN Returned([violation |-> TRUE, reason |-> "Invalid candidate data."])
    ELSE IF TypeOf(GroupOfOf(candidateDetails)) # "number"
    THEN Returned([violation |-> TRUE, reason |-> "Invalid candidate data."])
    ELSE IF TypeOf(capacity) # "number"
    THEN Returned([violation |-> TRUE, reason |-> "Invalid slot capacity."])
    ELSE IF capacity.value < 1
    THEN Returned([violation |-> TRUE, reason |-> "Invalid slot capacity."])
    ELSE IF currentOccupantsDetails.type # "array" THEN Thrown
    ELSE Returned(PairingRulesEdge(
             Len(currentOccupantsDetails.value) + 1,
             Cardinality({i \in DOMAIN currentOccupantsDetails.value :
                             GroupSizeOf(currentOccupantsDetails.value[i]) = 1})
                 + (IF GroupSizeOf(candidateDetails) = 1 THEN 1 ELSE 0),
             Cardinality({i \in DOMAIN currentOccupantsDetails.value :
                             GroupSizeOf(currentOccupantsDetails.value[i]) = 2})
                 + (IF GroupSizeOf(candidateDetails) = 2 THEN 1 ELSE 0),
             capacity.value))

\* part_000 checkPairingRuleViolation, from its first line
checkPairingRuleViolationEdgeCall(candidateDetails, currentOccupantsDetails, capacity) ==
    IF ~Truthy(candidateDetails)
    THEN Returned([violation |-> TRUE, reason |-> "Invalid candidate data."])
    ELSE IF GroupOfOf(candidateDetails).type = "TypeError" THEN Thrown
    ELSE IF TypeOf(GroupOfOf(candidateDetails)) # "number"
    THEN Returned([violation |-> TRUE, reason |-> "Invalid candidate data."])
    ELSE IF currentOccupantsDetails.type # "array"
    THEN Returned([violation |-> TRUE, reason |-> "Invalid current occupants data."])
    ELSE IF TypeOf(capacity) # "number"
    THEN Returned([violation |-> TRUE, reason |-> "Invalid slot capacity."])
    ELSE IF capacity.value < 1
    THEN Returned([violation |-> TRUE, reason |-> "Invalid slot capacity."])
    ELSE Returned(PairingRulesEdge(
             Len(currentOccupantsDetails.value) + 1,
             Cardinality({i \in DOMAIN currentOccupantsDetails.value :
                             GroupSizeOf(currentOccupantsDetails.value[i]) = 1})
                 + (IF GroupSizeOf(candidateDetails) = 1 THEN 1 ELSE 0),
             Cardinality({i \in DOMAIN currentOccupantsDetails.value :
                             GroupSizeOf(currentOccupantsDetails.value[i]) = 2})
                 + (IF GroupSizeOf(candidateDetails) = 2 THEN 1 ELSE 0),
             capacity.value))

\* occ?.groupOf for the elements of an array, those of type number only:
\* the Set existingGroupTypes
NumericGroupTypes(elements) ==
    {GroupOfOf(elements[i]).value :
        i \in {j \in DOMAIN elements :
                  /\ elements[j].type \notin {"null", "undefined"}
                  /\ TypeOf(GroupOfOf(elements[j])) = "number"}}

\* The first element of [...existingSubGroups] for the elements of an array
RECURSIVE FirstSubGroupOf(_)
FirstSubGroupOf(elements) ==
    IF elements = <<>> THEN NoSubGroup
    ELSE IF SubGroupOf(Head(elements)) # NoSubGroup THEN SubGroupOf(Head(elements))
    ELSE FirstSubGroupOf(Tail(elements))

\* js/utils.js checkPairingRuleViolation after its default parameter:
\* currentOccupantDetails is no longer undefined
ValidateAndCheck(newStudentDetails, currentOccupantDetails, slotCapacity) ==
    IF ~Truthy(newStudentDetails)
    THEN Returned([violation |-> TRUE, reason |-> "Invalid new student data."])
    ELSE IF GroupOfOf(newStudentDetails).type = "TypeError" THEN Thrown
    ELSE IF TypeOf(GroupOfOf(newStudentDetails)) # "number"
    THEN Returned([violation |-> TRUE, reason |-> "Invalid new student data."])
    ELSE IF currentOccupantDetails.type # "array"
    THEN Returned([violation |-> TRUE, reason |-> "Invalid current occupants data."])
    ELSE IF TypeOf(slotCapacity) # "number"
    THEN Returned([violation |-> TRUE, reason |-> "Invalid slot capacity."])
    ELSE IF slotCapacity.value < 1
    THEN Returned([violation |-> TRUE, reason |-> "Invalid slot capacity."])
    ELSE Returned(PairingRules(GroupOfOf(newStudentDetails).value,
                               SubGroupOf(newStudentDetails),
                               Len(currentOccupantDetails.value),
                               NumericGroupTypes(currentOccupantDetails.value),
                               FirstSubGroupOf(currentOccupantDetails.value),
                               slotCapacity.value))

\* js/utils.js checkPairingRuleViolation, from its first line
checkPairingRuleViolationCall(newStudentDetails, currentOccupantDetails, slotCapacity) ==
    IF currentOccupantDetails.type = "undefined"
    THEN ValidateAndCheck(newStudentDetails, JsArray(<<>>), slotCapacity)
    ELSE ValidateAndCheck(newStudentDetails, currentOccupantDetails, slotCapacity)


(***************************************************************************)
(* Edge function get-optimal-fill-ins (part_000 serve)                     *)
(*                                                                         *)
(* A row of the students table is a record                                 *)
(*   [id, Name, groupOf, sub_group, lessons_owed, availability_string,     *)
(*    class_name, is_active];                                              *)
(* the edge function selects every column but is_active.  A row whose      *)
(* "lessons owed" is null or missing has no field lessons_owed.            *)
(***************************************************************************)
\* part_000 getStudentDetails: << >> is null, <<details>> the details
getStudentDetailsEdge(studentId, allStudentsData) ==
    LET found == {i \in DOMAIN allStudentsData : allStudentsData[i].id = studentId}
        student == allStudentsData[CHOOSE i \in found : \A j \in found : i <= j]
    IN  IF found = {} THEN <<>>
        ELSE <<[id                  |-> student.id,
                name                |-> student.Name,
                groupOf             |-> IF student.groupOf \in Int THEN student.groupOf ELSE 1,
                subGroup            |-> student.sub_group,
                lessons_owed        |-> IF "lessons_owed" \in DOMAIN student
                                        THEN student.lessons_owed ELSE 0,
                availability_string |-> student.availability_string,
                class_name          |-> student.class_name]>>

\* .map(id => getStudentDetails(id, all)).filter(details => details !== null)
RECURSIVE DetailsOfEdge(_, _)
DetailsOfEdge(ids, allStudentsData) ==
    IF ids = <<>> THEN <<>>
    ELSE getStudentDetailsEdge(Head(ids), allStudentsData)
             \o DetailsOfEdge(Tail(ids), allStudentsData)

\* step 4b: the rows of daily_blocks whose block_date is one of the slots' dates
FetchBlocks(dailyBlocksTable, slotsNeedingFillins) ==
    LET datesToCheck == {slotsNeedingFillins[i].slot_date : i \in DOMAIN slotsNeedingFillins}
        InDates(block) == block.block_date \in datesToCheck
    IN  SelectSeq(dailyBlocksTable, InDates)

\* potentialCandidates with >= 0 in place of > 0
potentialCandidatesOwedAtLeastZero(allStudentsData) ==
    LET Owes(student) ==
            (IF "lessons_owed" \in DOMAIN student THEN student.lessons_owed ELSE 0) >= 0
    IN  SelectSeq(allStudentsData, Owes)

\* step 5: the students that owe at least one lesson; student["lessons
\* owed"] ?? 0 reads a null or missing value as 0
potentialCandidates(allStudentsData) ==
    LET Owes(student) ==
            (IF "lessons_owed" \in DOMAIN student THEN student.lessons_owed ELSE 0) > 0
    IN  SelectSeq(allStudentsData, Owes)

existingStudentsDetails(slot, allStudentsData) ==
    DetailsOfEdge(slot.original_student_ids, allStudentsData)

targetSubGroup(slot, allStudentsData) ==
    LET existing == existingStudentsDetails(slot, allStudentsData)
    IN  IF Len(existing) > 0 /\ existing[1].subGroup # NoSubGroup
        THEN existing[1].subGroup ELSE NoSubGroup

\* PassesSlotFilter without the daily-block test
PassesSlotFilterNoBlocks(candDetails, slot, allStudentsData, allBlocks) ==
    /\ candDetails.id \notin Range(slot.original_student_ids)
    /\ isStudentAvailableEdge(candDetails.availability_string,
                              slot.day_of_week, slot.start_time)
    /\ ~(/\ targetSubGroup(slot, allStudentsData) # NoSubGroup
         /\ candDetails.subGroup # targetSubGroup(slot, allStudentsData))

\* The predicate of the filter that builds candidatesForSlot
PassesSlotFilter(candDetails, slot, allStudentsData, allBlocks) ==
    /\ candDetails.id \notin Range(slot.original_student_ids)
    /\ isStudentAvailableEdge(candDetails.availability_string,
                              slot.day_of_week, slot.start_time)
    /\ ~(/\ targetSubGroup(slot, allStudentsData) # NoSubGroup
         /\ candDetails.subGroup # targetSubGroup(slot, allStudentsData))
    /\ ~isStudentBlockedEdge(candDetails, slot.slot_date, slot.coach_id, allBlocks)

\* Lines 272-288 on the array potentialCandidates as it stands when the
\* loop reaches the slot: map and filter each build a new array
candidatesFrom(potential, slot, allStudentsData, allBlocks) ==
    LET ids == [i \in DOMAIN potential |-> potential[i].id]
        Passes(candDetails) == PassesSlotFilter(candDetails, slot, allStudentsData, allBlocks)
    IN  SelectSeq(DetailsOfEdge(ids, allStudentsData), Passes)

candidatesForSlot(slot, allStudentsData, allBlocks) ==
    candidatesFrom(potentialCandidates(allStudentsData), slot, allStudentsData, allBlocks)

\* Array.prototype.sort with (a, b) => b.lessons_owed - a.lessons_owed: the
\* sort is stable, elements that compare equal keep their order
RECURSIVE InsertByOwed(_, _)
InsertByOwed(sorted, x) ==
    IF sorted = <<>> THEN <<x>>
    ELSE IF Head(sorted).lessons_owed >= x.lessons_owed
    THEN <<Head(sorted)>> \o InsertByOwed(Tail(sorted), x)
    ELSE <<x>> \o sorted

RECURSIVE SortAcc(_, _)
SortAcc(rest, sorted) ==
    IF rest = <<>> THEN sorted
    ELSE SortAcc(Tail(rest), InsertByOwed(sorted, Head(rest)))

\* sortByLessonsOwed with the comparator's operands swapped: ascending
sortByLessonsOwedAscending(candidates) ==
    LET desc == SortAcc(candidates, <<>>)
    IN  [i \in DOMAIN desc |-> desc[Len(desc) + 1 - i]]

sortByLessonsOwed(candidates) == SortAcc(candidates, <<>>)

Member(candidate) ==
    [student_id   |-> candidate.id,
     name         |-> candidate.name,
     lessons_owed |-> candidate.lessons_owed,
     groupOf      |-> candidate.groupOf,
     subGroup     |-> candidate.subGroup]

\* The greedy for loop in which a candidate skipped for its sub-group takes
\* one of the places needed
RECURSIVE GreedyLoopSkipTakesPlace(_, _, _, _, _, _)
GreedyLoopSkipTakesPlace(candidates, neededCount, capacity, recommended_group, currentTestOccupants, currentCompulsorySubGroup) ==
    IF candidates = <<>> THEN recommended_group
    ELSE
      LET candidate == Head(candidates)
          rest      == Tail(candidates)
          accepted  == Append(recommended_group, Member(candidate))
      IN  IF Len(recommended_group) >= neededCount THEN recommended_group
          ELSE IF /\ currentCompulsorySubGroup # NoSubGroup
                  /\ candidate.subGroup # currentCompulsorySubGroup
          THEN GreedyLoopSkipTakesPlace(rest, neededCount - 1, capacity, recommended_group,
                                        currentTestOccupants, currentCompulsorySubGroup)
          ELSE IF checkPairingRuleViolationEdge(candidate, currentTestOccupants,
                                                capacity).violation
          THEN GreedyLoopSkipTakesPlace(rest, neededCount, capacity, recommended_group,
                                        currentTestOccupants, currentCompulsorySubGroup)
          ELSE GreedyLoopSkipTakesPlace(rest, neededCount, capacity, accepted,
                          Append(currentTestOccupants, candidate),
                          IF /\ Len(accepted) = 1
                             /\ currentCompulsorySubGroup = NoSubGroup
                             /\ candidate.subGroup # NoSubGroup
                          THEN candidate.subGroup ELSE currentCompulsorySubGroup)

\* The greedy for loop, one candidate per unfolding
RECURSIVE GreedyLoop(_, _, _, _, _, _)
GreedyLoop(candidates, neededCount, capacity, recommended_group, currentTestOccupants, currentCompulsorySubGroup) ==
    IF candidates = <<>> THEN recommended_group
    ELSE
      LET candidate == Head(candidates)
          rest      == Tail(candidates)
          accepted  == Append(recommended_group, Member(candidate))
      IN  IF Len(recommended_group) >= neededCount THEN recommended_group
          ELSE IF /\ currentCompulsorySubGroup # NoSubGroup
                  /\ candidate.subGroup # currentCompulsorySubGroup
          THEN GreedyLoop(rest, neededCount, capacity, recommended_group,
                          currentTestOccupants, currentCompulsorySubGroup)
          ELSE IF checkPairingRuleViolationEdge(candidate, currentTestOccupants,
                                                capacity).violation
          THEN GreedyLoop(rest, neededCount, capacity, recommended_group,
                          currentTestOccupants, currentCompulsorySubGroup)
          ELSE GreedyLoop(rest, neededCount, capacity, accepted,
                          Append(currentTestOccupants, candidate),
                          IF /\ Len(accepted) = 1
                             /\ currentCompulsorySubGroup = NoSubGroup
                             /\ candidate.subGroup # NoSubGroup
                          THEN candidate.subGroup ELSE currentCompulsorySubGroup)

sortedCandidatesFor(slot, allStudentsData, allBlocks) ==
    sortByLessonsOwed(candidatesForSlot(slot, allStudentsData, allBlocks))

\* greedyFill whose loop never takes the break on
\* recommended_group.length >= neededCount
greedyFillNoBreak(sortedCandidates, slot, allStudentsData) ==
    GreedyLoop(sortedCandidates,
               Len(sortedCandidates) + 1, slot.capacity, <<>>,
               existingStudentsDetails(slot, allStudentsData),
               targetSubGroup(slot, allStudentsData))

\* The greedy fill of one slot, from its sorted candidates
greedyFill(sortedCandidates, slot, allStudentsData) ==
    GreedyLoop(sortedCandidates,
               slot.capacity - slot.current_occupants, slot.capacity, <<>>,
               existingStudentsDetails(slot, allStudentsData),
               targetSubGroup(slot, allStudentsData))

\* resultForSlot whose neededCount forgets the slot's current occupants:
\* neededCount = slot.capacity
resultForSlotIgnoringOccupants(potential, slot, allStudentsData, allBlocks) ==
    IF slot.capacity <= 0 THEN <<>>
    ELSE <<[schedule_id          |-> slot.schedule_id,
            day_of_week          |-> slot.day_of_week,
            start_time           |-> substring(slot.start_time, 0, 5),
            capacity             |-> slot.capacity,
            coach_id             |-> slot.coach_id,
            original_student_ids |-> slot.original_student_ids,
            current_occupants    |-> slot.current_occupants,
            slot_date            |-> slot.slot_date,
            recommended_group    |->
                GreedyLoop(sortByLessonsOwed(candidatesFrom(potential, slot,
                                                            allStudentsData, allBlocks)),
                           slot.capacity, slot.capacity, <<>>,
                           existingStudentsDetails(slot, allStudentsData),
                           targetSubGroup(slot, allStudentsData))]>>

\* The body of the loop over slotsNeedingFillins: << >> where the slot is
\* skipped (neededCount <= 0), else the one ResultSlot pushed
resultForSlot(potential, slot, allStudentsData, allBlocks) ==
    IF slot.capacity - slot.current_occupants <= 0 THEN <<>>
    ELSE <<[schedule_id          |-> slot.schedule_id,
            day_of_week          |-> slot.day_of_week,
            start_time           |-> substring(slot.start_time, 0, 5),
            capacity             |-> slot.capacity,
            coach_id             |-> slot.coach_id,
            original_student_ids |-> slot.original_student_ids,
            current_occupants    |-> slot.current_occupants,
            slot_date            |-> slot.slot_date,
            recommended_group    |->
                greedyFill(sortByLessonsOwed(candidatesFrom(potential, slot,
                                                            allStudentsData, allBlocks)),
                           slot, allStudentsData)]>>


\* serve sorting the array potentialCandidates itself, in place, where it
\* sorts the slot's candidates
potentialCandidatesSortedInPlace(potential, slot, allStudentsData, allBlocks) ==
    IF slot.capacity - slot.current_occupants <= 0 THEN potential
    ELSE sortByLessonsOwed(potential)

\* serve taking the students it recommends for a slot out of
\* potentialCandidates, so that a later slot of the request cannot get them
potentialCandidatesLessRecommended(potential, slot, allStudentsData, allBlocks) ==
    LET result  == resultForSlot(potential, slot, allStudentsData, allBlocks)
        taken   == IF result = <<>> THEN {}
                   ELSE {result[1].recommended_group[j].student_id :
                            j \in DOMAIN result[1].recommended_group}
        Left(student) == student.id \notin taken
    IN  SelectSeq(potential, Left)

\* The array potentialCandidates after the loop body ran for a slot: the
\* filter works on the array map built and the sort on the array filter
\* built, so the loop body leaves potentialCandidates as it found it
potentialCandidatesAfterSlot(potential, slot, allStudentsData, allBlocks) == potential

\* The loop over slotsNeedingFillins: the results array of the response
RECURSIVE serveResults(_, _, _, _)
serveResults(slotsNeedingFillins, potential, allStudentsData, allBlocks) ==
    IF slotsNeedingFillins = <<>> THEN <<>>
    ELSE resultForSlot(potential, Head(slotsNeedingFillins), allStudentsData, allBlocks)
             \o serveResults(Tail(slotsNeedingFillins),
                             potentialCandidatesAfterSlot(potential, Head(slotsNeedingFillins),
                                                          allStudentsData, allBlocks),
                             allStudentsData, allBlocks)

\* The array candidatesForSlot of every slot the loop does not skip, in
\* turn, as the filter built it
RECURSIVE candidatesOfSlots(_, _, _, _)
candidatesOfSlots(slotsNeedingFillins, potential, allStudentsData, allBlocks) ==
    IF slotsNeedingFillins = <<>> THEN <<>>
    ELSE (IF Head(slotsNeedingFillins).capacity
                 - Head(slotsNeedingFillins).current_occupants <= 0 THEN <<>>
          ELSE <<candidatesFrom(potential, Head(slotsNeedingFillins),
                                allStudentsData, allBlocks)>>)
             \o candidatesOfSlots(Tail(slotsNeedingFillins),
                                  potentialCandidatesAfterSlot(potential,
                                      Head(slotsNeedingFillins), allStudentsData, allBlocks),
                                  allStudentsData, allBlocks)

(***************************************************************************)
(* Client: schedule rendering and the interactive suggestion tool          *)
(***************************************************************************)
\* js/utils.js getStudentDetails: the row found (its missing fields
\* defaulted in place), else the default 'Unknown Student' object
getStudentDetails(studentId, studentsData) ==
    LET found == {i \in DOMAIN studentsData : studentsData[i].id = studentId}
        foundStudent == studentsData[CHOOSE i \in found : \A j \in found : i <= j]
    IN  IF found = {}
        THEN [id |-> studentId, Name |-> "", groupOf |-> 1, sub_group |-> NoSubGroup,
              class_name |-> <<>>, availability_string |-> <<>>]
        ELSE [foundStudent EXCEPT
                 !.groupOf = IF foundStudent.groupOf \in Int THEN foundStudent.groupOf ELSE 1]

DetailsOf(ids, studentsData) ==
    [i \in DOMAIN ids |-> getStudentDetails(ids[i], studentsData)]

\* [...ids] in place of [...new Set(ids)]: every id as often as it occurs
DedupKeepsAll(ids, seen) == ids

\* [...new Set(ids)]: the first occurrence of every id, in order
RECURSIVE Dedup(_, _)
Dedup(ids, seen) ==
    IF ids = <<>> THEN <<>>
    ELSE IF Head(ids) \in seen THEN Dedup(Tail(ids), seen)
    ELSE <<Head(ids)>> \o Dedup(Tail(ids), seen \cup {Head(ids)})

\* schedule.js createSlotElement, lines 84-95 (not in edit mode): the
\* original students not marked absent, then the assigned fill-ins
currentStudentIdsOf(originalStudentIds, absentIds, fillInIds) ==
    LET Present(id) == id \notin absentIds
    IN  Dedup(SelectSeq(originalStudentIds, Present) \o fillInIds, {})

\* schedule.js createSlotElement, lines 97-115
DefaultDbCapacity == 3

\* lines 97-111: the capacity the original students' group size and the
\* stored capacity give
capacityByGroup(dbCapacity, originalStudentIds, studentsData) ==
    LET validDbCapacity == IF dbCapacity > 0 THEN dbCapacity ELSE DefaultDbCapacity
        originalStudentDetails == DetailsOf(originalStudentIds, studentsData)
        hasSolo   == \E i \in DOMAIN originalStudentDetails :
                         originalStudentDetails[i].groupOf = 1
        hasPaired == \E i \in DOMAIN originalStudentDetails :
                         originalStudentDetails[i].groupOf = 2
    IN  IF Len(originalStudentIds) > 0 /\ studentsData # <<>>
        THEN IF hasSolo THEN 1 ELSE IF hasPaired THEN 2 ELSE validDbCapacity
        ELSE validDbCapacity

\* lines 113-115: Math.max(effectiveCapacity, currentOccupants)
effectiveCapacityOf(dbCapacity, originalStudentIds, currentStudentIds, studentsData) ==
    IF capacityByGroup(dbCapacity, originalStudentIds, studentsData) >= Len(currentStudentIds)
    THEN capacityByGroup(dbCapacity, originalStudentIds, studentsData)
    ELSE Len(currentStudentIds)

\* logViewer.js findAndDisplayAbsenceReplacements, the body of the loop over
\* backendCandidates: TRUE where the candidate is pushed
KeepsCandidate(candidate, studentsData, slotDay, targetTime, capacity, currentOccupantDetails, targetDate, coachId, blocksForDate) ==
    LET studentDetails == getStudentDetails(candidate.id, studentsData)
    IN  IF studentDetails.Name = "" THEN FALSE
        ELSE IF studentDetails.is_active = FALSE THEN FALSE
        ELSE IF ~isStudentAvailable(studentDetails, slotDay, targetTime) THEN FALSE
        ELSE IF checkPairingRuleViolation(studentDetails, currentOccupantDetails,
                                          capacity).violation THEN FALSE
        ELSE IF isStudentBlocked(studentDetails, targetDate, coachId, blocksForDate)
        THEN FALSE
        ELSE TRUE

\* api.js fetchDailyBlocksForDate: .eq('block_date', targetDate)
fetchDailyBlocksForDate(dailyBlocksTable, targetDate) ==
    LET OnDate(block) == block.block_date = targetDate
    IN  SelectSeq(dailyBlocksTable, OnDate)

availableCandidatesOf(backendCandidates, studentsData, slotDay, targetTime, capacity, currentStudentIds, targetDate, coachId, blocksForDate) ==
    LET currentOccupantDetails == DetailsOf(currentStudentIds, studentsData)
        Keeps(candidate) ==
            KeepsCandidate(candidate, studentsData, slotDay, targetTime, capacity,
                           currentOccupantDetails, targetDate, coachId, blocksForDate)
        kept == SelectSeq(backendCandidates, Keeps)
    IN  [i \in DOMAIN kept |->
            [id           |-> kept[i].id,
             Name         |-> getStudentDetails(kept[i].id, studentsData).Name,
             lessons_owed |-> kept[i].lessons_owed,
             groupOf      |-> getStudentDetails(kept[i].id, studentsData).groupOf,
             subGroup     |-> getStudentDetails(kept[i].id, studentsData).sub_group,
             class_name   |-> getStudentDetails(kept[i].id, studentsData).class_name]]


\* schedule.js createSlotElement: the data attributes of the slot's element
createSlotElement(slot, todaysStatuses, studentsData) ==
    LET currentStudentIds == currentStudentIdsOf(slot.original_student_ids,
                                                 todaysStatuses.absent, todaysStatuses.fillIns)
    IN  [scheduleId       |-> slot.schedule_id,
         day              |-> slot.day,
         time             |-> slot.time,
         coachId          |-> slot.coach_id,
         capacity         |-> effectiveCapacityOf(slot.capacity, slot.original_student_ids,
                                                  currentStudentIds, studentsData),
         originalStudents |-> slot.original_student_ids,
         currentStudents  |-> currentStudentIds]

\* student.Name.toLowerCase().includes(searchTerm): the rows' names are ""
\* (none) or "Student", which includes the term "stu" and not the term "xyz"
NameIncludes(name, searchTerm) == name = "Student" /\ searchTerm = "stu"

\* schedule.js handleManualSearchInput: the ids of the students listed with
\* an Add button, for the slot details kept in appState.selectedLessonSlot
filteredStudents(searchTerm, selectedSlot, studentsData) ==
    LET currentOccupantDetails == DetailsOf(selectedSlot.currentStudentIds, studentsData)
        Listed(student) ==
            /\ student.is_active # FALSE
            /\ NameIncludes(student.Name, searchTerm)
            /\ student.id \notin Range(selectedSlot.currentStudentIds)
            /\ isStudentAvailable(getStudentDetails(student.id, studentsData),
                                  selectedSlot.day, selectedSlot.time)
            /\ ~checkPairingRuleViolation(getStudentDetails(student.id, studentsData),
                                          currentOccupantDetails,
                                          selectedSlot.capacity).violation
        listed == SelectSeq(studentsData, Listed)
    IN  [i \in 1..(IF Len(listed) < 10 THEN Len(listed) ELSE 10) |-> listed[i].id]

\* api.js addDailyStatus with 'assigned_fill_in': the upsert on (student_id,
\* lesson_schedule_id, status_date) replaces the student's status of the day
upsertAssignedFillIn(dayStatuses, studentId) ==
    [absent  |-> dayStatuses.absent \ {studentId},
     fillIns |-> IF studentId \in Range(dayStatuses.fillIns) THEN dayStatuses.fillIns
                 ELSE Append(dayStatuses.fillIns, studentId)]

\* api.js removeDailyStatus: the delete on (student_id, lesson_schedule_id,
\* status_date) removes the student's status of the day, whatever it is
removeDailyStatus(dayStatuses, studentId) ==
    LET Other(id) == id # studentId
    IN  [absent  |-> dayStatuses.absent \ {studentId},
         fillIns |-> SelectSeq(dayStatuses.fillIns, Other)]


(***************************************************************************)
(* State                                                                   *)
(***************************************************************************)
VARIABLES
    students,             \* rows of the students table, in fetch order
    daily_blocks,         \* rows of the daily_blocks table
    schedule,             \* the lesson_schedule row of the slot looked at
    statuses,             \* today's daily statuses of that slot
    today,                \* getTodaysDateUTC()
    slotsNeedingFillins,  \* what the RPC get_slots_needing_fillins_v2 returns
    response,             \* the edge function's response: status 0 before it
    suggestionBox,        \* the interactive tool's suggestion box
    query,                \* the arguments of a helper called on its own
    answer,               \* what the helper returned
    session,              \* the page of the interactive tool: appState, the
                          \* slot element, the manual-add panel, requests sent
    realtime              \* js/realtime.js: the module's variables, the mode,
                          \* the channels created and the calls in flight

vars == <<students, daily_blocks, schedule, statuses, today, slotsNeedingFillins,
          response, suggestionBox, query, answer, session, realtime>>

(***************************************************************************)
(* Bounds and input values                                                 *)
(***************************************************************************)
NumStudents == 3

MaxCapacity == 3

Today == "2025-03-03"

OtherDate == "2025-03-04"

T0900 == <<"0", "9", ":", "0", "0", ":", "0", "0">>

T0930 == <<"0", "9", ":", "3", "0", ":", "0", "0">>

T1000 == <<"1", "0", ":", "0", "0", ":", "0", "0">>

\* "Monday: 09:00"
AvailMonday0900 == Monday \o <<":", " ", "0", "9", ":", "0", "0">>

Year7A == <<"Y", "e", "a", "r", " ", "7", "A">>

Year8A == <<"Y", "e", "a", "r", " ", "8", "A">>

Year7 == <<"Y", "e", "a", "r", " ", "7">>

BaseStudent(i) ==
    [id |-> i, Name |-> "Student", groupOf |-> 3, sub_group |-> NoSubGroup,
     lessons_owed |-> 1, availability_string |-> AvailMonday0900,
     class_name |-> Year7A, is_active |-> TRUE]

\* schedule.js handleRosterAddSearchInput: a student joins the roster of a
\* slot only if the slot is not full and the pairing rules allow it
OriginalsBuildable(originals, dbCapacity, studentsData) ==
    \A k \in DOMAIN originals :
        LET before   == SubSeq(originals, 1, k - 1)
            capacity == effectiveCapacityOf(dbCapacity, before, before, studentsData)
        IN  /\ Len(before) < capacity
            /\ ~checkPairingRuleViolation(getStudentDetails(originals[k], studentsData),
                                          DetailsOf(before, studentsData),
                                          capacity).violation

\* schedule.js handleManualSearchInput and findAndDisplayAbsenceReplacements:
\* a fill-in is offered only if the pairing rules allow it beside the
\* students then in the slot
FillInsBuildable(originals, absentIds, fillIns, dbCapacity, studentsData) ==
    \A k \in DOMAIN fillIns :
        LET before   == currentStudentIdsOf(originals, absentIds, SubSeq(fillIns, 1, k - 1))
            capacity == effectiveCapacityOf(dbCapacity, originals, before, studentsData)
        IN  ~checkPairingRuleViolation(getStudentDetails(fillIns[k], studentsData),
                                       DetailsOf(before, studentsData),
                                       capacity).violation

\* The RPC's row for the slot: its current_occupants counts the students
\* in the slot today
get_slots_needing_fillins_v2(scheduleRow, dayStatuses, slotDate) ==
    <<[schedule_id          |-> scheduleRow.schedule_id,
       day_of_week          |-> scheduleRow.day,
       start_time           |-> scheduleRow.time,
       capacity             |-> scheduleRow.capacity,
       coach_id             |-> scheduleRow.coach_id,
       original_student_ids |-> scheduleRow.original_student_ids,
       current_occupants    |->
           Len(currentStudentIdsOf(scheduleRow.original_student_ids,
                                   dayStatuses.absent, dayStatuses.fillIns)),
       slot_date            |-> slotDate]>>

\* The RPC behind findSingleSlotSuggestions: the students that owe a lesson
\* and are not in the slot, with their lessons owed
get_single_slot_suggestions(studentsData, currentStudentIds) ==
    LET Offered(student) == /\ "lessons_owed" \in DOMAIN student
                            /\ student.lessons_owed > 0
                            /\ student.id \notin Range(currentStudentIds)
        rows == SelectSeq(studentsData, Offered)
    IN  [i \in DOMAIN rows |-> [id |-> rows[i].id, lessons_owed |-> rows[i].lessons_owed]]

\* logViewer.js findAndDisplayAbsenceReplacements called with the slot's
\* element: the candidates the suggestion box lists
absenceReplacementsFor(triggerElement, studentsData, dailyBlocksTable, targetDate) ==
    availableCandidatesOf(
        get_single_slot_suggestions(studentsData, triggerElement.currentStudents),
        studentsData, triggerElement.day, triggerElement.time, triggerElement.capacity,
        triggerElement.currentStudents, targetDate, triggerElement.coachId,
        fetchDailyBlocksForDate(dailyBlocksTable, targetDate))

NoQuery == [kind |-> "none"]

\* No page of the interactive tool is open
NoSession == [open |-> FALSE]

\* js/realtime.js is not loaded
NoRealtime == [loaded |-> FALSE]

Start(roster, dbCapacity, originals, day, time, absentIds, fillIns, blocks, slotDate) ==
    /\ students = roster
    /\ daily_blocks = blocks
    /\ schedule = [schedule_id |-> 1, day |-> day, time |-> time, capacity |-> dbCapacity,
                   coach_id |-> 1, original_student_ids |-> originals]
    /\ statuses = [absent |-> absentIds, fillIns |-> fillIns]
    /\ today = Today
    /\ slotsNeedingFillins =
           get_slots_needing_fillins_v2(
               [schedule_id |-> 1, day |-> day, time |-> time, capacity |-> dbCapacity,
                coach_id |-> 1, original_student_ids |-> originals],
               [absent |-> absentIds, fillIns |-> fillIns], slotDate)
    /\ response = [status |-> 0, body |-> <<>>]
    /\ suggestionBox = [shown |-> FALSE, candidates |-> <<>>]
    /\ query = NoQuery
    /\ answer = NoQuery
    /\ session = NoSession
    /\ realtime = NoRealtime

\* The pairs <<groupOf, sub_group>> a student row is given
StudentKinds ==
    {<<1, NoSubGroup>>, <<2, NoSubGroup>>, <<2, "A">>,
     <<3, NoSubGroup>>, <<3, "A">>, <<3, "B">>}

\* Rosters that differ in group size and sub-group, slots that differ in
\* capacity, roster, absences and assigned fill-ins
InitGrouping ==
    \E kind \in [1..NumStudents -> StudentKinds],
       dbCapacity \in 1..MaxCapacity, k \in 0..(NumStudents - 1) :
        \E absentIds \in SUBSET (1..k),
           fillIns \in {<<>>} \cup {<<i>> : i \in (k + 1)..NumStudents} :
            LET roster == [i \in 1..NumStudents |->
                              [BaseStudent(i) EXCEPT !.groupOf = kind[i][1],
                                                     !.sub_group = kind[i][2]]]
                originals == [i \in 1..k |-> i]
            IN  /\ OriginalsBuildable(originals, dbCapacity, roster)
                /\ FillInsBuildable(originals, absentIds, fillIns, dbCapacity, roster)
                /\ Start(roster, dbCapacity, originals, Monday, T0900,
                         absentIds, fillIns, <<>>, Today)

\* "<Day>: <time-spec>"
Entry(day, timeSpec) == day \o <<":", " ">> \o timeSpec

\* "HH:MM-HH:MM" for two minutes of the day
RangeSpec(startMinutes, endMinutes) ==
    formatTime(<<startMinutes>>) \o <<"-">> \o formatTime(<<endMinutes>>)

\* Availability strings a student row may hold: a single time, a range, a
\* time with a pm suffix, an inverted range, another day
AvailabilityStrings ==
    {AvailMonday0900,
     Entry(Monday, RangeSpec(540, 600)),
     Entry(Monday, formatTime(<<540>>) \o <<"p", "m">>),
     Entry(Monday, RangeSpec(600, 540)),
     Entry(Tuesday, formatTime(<<540>>))}

\* Rows of daily_blocks: api.js createDailyBlock demands an identifier
\* for the three types that read it
BlockKinds ==
    {<<"Public Holiday", <<>>>>,
     <<"Year Level Absence", Year7>>,
     <<"Class Absence", Year7>>, <<"Class Absence", Year7A>>,
     <<"Coach Unavailable", <<"1">>>>, <<"Coach Unavailable", <<"2">>>>,
     <<"Other", <<>>>>}

BlockUniverse ==
    {[block_type |-> kind[1], identifier |-> kind[2], block_date |-> d] :
        kind \in BlockKinds, d \in {Today, OtherDate}}

\* What the column "lessons owed" of a row holds: null (<< >>) or a number
LessonsOwedValues == {<<>>, <<0 - 1>>, <<0>>, <<1>>}

\* The row with that value in "lessons owed"
WithLessonsOwed(student, owed) ==
    IF owed = <<>> THEN [f \in DOMAIN student \ {"lessons_owed"} |-> student[f]]
    ELSE [student EXCEPT !.lessons_owed = owed[1]]

\* One candidate whose availability, class, activity and lessons owed vary,
\* beside a second student who is on the roster or not; slots that differ in
\* start time and in having a slot_date; at most one daily block
InitEligibility ==
    \E availability \in AvailabilityStrings, className \in {Year7A, Year8A},
       active \in BOOLEAN, owed \in LessonsOwedValues, k \in {0, 1},
       time \in {T0900, T0930, T1000}, slotDate \in {Today, NoDate},
       blocks \in {<<>>} \cup {<<b>> : b \in BlockUniverse} :
        LET roster == <<BaseStudent(2),
                        WithLessonsOwed([BaseStudent(1) EXCEPT
                                             !.availability_string = availability,
                                             !.class_name = className,
                                             !.is_active = active], owed)>>
            originals == [i \in 1..k |-> 2]
        IN  Start(roster, MaxCapacity, originals, Monday, time, {}, <<>>, blocks, slotDate)

\* NumStudents + 1 students in the group-of-three class, each owing 1, 3 or
\* 5 lessons, at most one of them not available at the slot; the table
\* lists them by descending id, so that table order and id order differ
InitRanking ==
    \E owed \in [1..(NumStudents + 1) -> {1, 3, 5}],
       away \in 0..(NumStudents + 1),
       dbCapacity \in 1..MaxCapacity :
        LET roster == [i \in 1..(NumStudents + 1) |->
                          [BaseStudent(NumStudents + 2 - i) EXCEPT
                              !.lessons_owed = owed[i],
                              !.availability_string =
                                  IF i # away THEN AvailMonday0900
                                  ELSE Entry(Tuesday, formatTime(<<540>>))]]
        IN  Start(roster, dbCapacity, <<>>, Monday, T0900, {}, <<>>, <<>>, Today)

\* Time specs that are no well-formed range: an end or a start missing, an
\* end that is no time
MalformedRanges ==
    {formatTime(<<540>>) \o <<"-">>,
     <<"-">> \o formatTime(<<600>>),
     formatTime(<<540>>) \o <<"-", "2", "5", ":", "0", "0">>}

MaxRangeSteps == 2

\* The minutes of the day a range may start or end at: 09:00 and up to
\* MaxRangeSteps half hours later
RangeMinutes == {540 + 30 * n : n \in 0..MaxRangeSteps}

\* The slot start times asked about: from 08:30 to the half hour after the
\* last RangeMinutes
TargetMinutes == {510 + 30 * n : n \in 0..(MaxRangeSteps + 2)}

\* A slot's start_time "HH:MM:00" for a minute of the day
StartTime(minutes) == formatTime(<<minutes>>) \o <<":", "0", "0">>

\* isStudentAvailable asked about one student whose availability is one
\* range on Monday, proper, empty, inverted or malformed
InitAvailability ==
    /\ \E day \in {Monday, Tuesday}, target \in TargetMinutes :
           \/ \E start \in RangeMinutes, end \in RangeMinutes :
                  query = [kind |-> "isStudentAvailable",
                           availability_string |-> Entry(Monday, RangeSpec(start, end)),
                           range |-> <<start, end>>,
                           targetDay |-> day, targetTime |-> StartTime(target),
                           targetMinutes |-> target]
           \/ \E timeSpec \in MalformedRanges :
                  query = [kind |-> "isStudentAvailable",
                           availability_string |-> Entry(Monday, timeSpec),
                           range |-> <<>>,
                           targetDay |-> day, targetTime |-> StartTime(target),
                           targetMinutes |-> target]
    /\ answer = NoQuery
    /\ session = NoSession
    /\ realtime = NoRealtime
    /\ students = <<>> /\ daily_blocks = <<>>
    /\ schedule = [schedule_id |-> 1, day |-> Monday, time |-> T0900,
                   capacity |-> DefaultDbCapacity, coach_id |-> 1,
                   original_student_ids |-> <<>>]
    /\ statuses = [absent |-> {}, fillIns |-> <<>>]
    /\ today = Today
    /\ slotsNeedingFillins = <<>>
    /\ response = [status |-> 0, body |-> <<>>]
    /\ suggestionBox = [shown |-> FALSE, candidates |-> <<>>]

MaxBlocks == 2

\* The sequences of at most MaxBlocks rows of BlockUniverse
BlockLists == UNION {[1..n -> BlockUniverse] : n \in 0..MaxBlocks}

\* isStudentBlocked asked about one student, one date (or none), one coach
\* and a list of daily blocks
InitBlocks ==
    /\ \E className \in {Year7A, Year8A}, blockDate \in {Today, NoDate},
          coachId \in {1, 2}, blocks \in BlockLists :
           query = [kind |-> "isStudentBlocked",
                    studentDetails |-> [BaseStudent(1) EXCEPT !.class_name = className],
                    blockDate |-> blockDate, coachId |-> coachId, blocks |-> blocks]
    /\ answer = NoQuery
    /\ session = NoSession
    /\ realtime = NoRealtime
    /\ students = <<>> /\ daily_blocks = <<>>
    /\ schedule = [schedule_id |-> 1, day |-> Monday, time |-> T0900,
                   capacity |-> DefaultDbCapacity, coach_id |-> 1,
                   original_student_ids |-> <<>>]
    /\ statuses = [absent |-> {}, fillIns |-> <<>>]
    /\ today = Today
    /\ slotsNeedingFillins = <<>>
    /\ response = [status |-> 0, body |-> <<>>]
    /\ suggestionBox = [shown |-> FALSE, candidates |-> <<>>]

\* Two slots of the same coach that agree in day, time, date, capacity and
\* roster, in one request; NumStudents students in the group-of-three
\* class, each owing 1, 3 or 5 lessons, at most one of them not available at
\* the slots
InitIdempotence ==
    \E owed \in [1..NumStudents -> {1, 3, 5}], away \in 0..NumStudents,
       dbCapacity \in 1..MaxCapacity :
        LET roster == [i \in 1..NumStudents |->
                          [BaseStudent(i) EXCEPT
                              !.lessons_owed = owed[i],
                              !.availability_string =
                                  IF i # away THEN AvailMonday0900
                                  ELSE Entry(Tuesday, formatTime(<<540>>))]]
            row(id) == [schedule_id |-> id, day |-> Monday, time |-> T0900,
                        capacity |-> dbCapacity, coach_id |-> 1,
                        original_student_ids |-> <<>>]
            dayStatuses == [absent |-> {}, fillIns |-> <<>>]
        IN  /\ students = roster
            /\ daily_blocks = <<>>
            /\ schedule = row(1)
            /\ statuses = dayStatuses
            /\ today = Today
            /\ slotsNeedingFillins =
                   get_slots_needing_fillins_v2(row(1), dayStatuses, Today)
                       \o get_slots_needing_fillins_v2(row(2), dayStatuses, Today)
            /\ response = [status |-> 0, body |-> <<>>]
            /\ suggestionBox = [shown |-> FALSE, candidates |-> <<>>]
            /\ query = NoQuery
            /\ answer = NoQuery
            /\ session = NoSession
            /\ realtime = NoRealtime

\* One request with one or two slots of the same coach: the first slot is on
\* Monday (dated Today), the second on Monday or on Tuesday (dated
\* OtherDate), at 09:00; a slot has one student or none on its roster and
\* any capacity; each student owes 1 or 3 lessons,
\* at most one is free on Tuesday instead of Monday; a public holiday may be
\* entered for either date
InitBatch ==
    \E owed \in [1..NumStudents -> {1, 3}], tuesdayId \in 0..NumStudents,
       onTuesday \in [1..2 -> BOOLEAN], dbCapacity \in [1..2 -> 1..MaxCapacity],
       k \in [1..2 -> 0..1], len \in 1..2,
       blocks \in {<<>>} \cup {<<[block_type |-> "Public Holiday", identifier |-> <<>>,
                                  block_date |-> d]>> : d \in {Today, OtherDate}} :
        LET roster == [i \in 1..NumStudents |->
                          [BaseStudent(i) EXCEPT
                              !.lessons_owed = owed[i],
                              !.availability_string =
                                  IF i # tuesdayId THEN AvailMonday0900
                                  ELSE Entry(Tuesday, formatTime(<<540>>))]]
            row(id) == [schedule_id |-> id,
                        day |-> IF onTuesday[id] THEN Tuesday ELSE Monday,
                        time |-> T0900, capacity |-> dbCapacity[id], coach_id |-> 1,
                        original_student_ids |-> [i \in 1..k[id] |-> i]]
            dateOf(id) == IF onTuesday[id] THEN OtherDate ELSE Today
            dayStatuses == [absent |-> {}, fillIns |-> <<>>]
        IN  /\ onTuesday[1] = FALSE
            /\ len = 1 => (onTuesday[2] = FALSE /\ dbCapacity[2] = 1 /\ k[2] = 0)
            /\ students = roster
            /\ daily_blocks = blocks
            /\ schedule = row(1)
            /\ statuses = dayStatuses
            /\ today = Today
            /\ slotsNeedingFillins =
                   get_slots_needing_fillins_v2(row(1), dayStatuses, dateOf(1))
                       \o (IF len = 1 THEN <<>>
                           ELSE get_slots_needing_fillins_v2(row(2), dayStatuses, dateOf(2)))
            /\ response = [status |-> 0, body |-> <<>>]
            /\ suggestionBox = [shown |-> FALSE, candidates |-> <<>>]
            /\ query = NoQuery
            /\ answer = NoQuery
            /\ session = NoSession
            /\ realtime = NoRealtime

\* The search terms typed into the manual-add panel
SearchTerms == {"stu", "xyz"}

\* The fill-ins a behaviour of the interactive tool asks for at most
MaxAdds == 2

\* The fill-ins asked for so far: those assigned and the requests on their way
AddsAskedFor(dayStatuses, requests) ==
    Len(dayStatuses.fillIns)
        + Cardinality({r \in requests : ~r.written /\ r.handler # "handleUndoAbsent"})

\* The schedule page of the interactive tool showing one slot, nothing
\* selected: the first k students are the slot's roster (built under the
\* roster rules), all solo, all paired or all in a group of three, and so
\* are the other students; some of the roster are marked absent today, no
\* fill-in is assigned yet
InitSession ==
    \E rosterGroupOf \in {1, 2, 3}, otherGroupOf \in {1, 2, 3},
       dbCapacity \in 1..MaxCapacity, k \in 0..(NumStudents - 1) :
        \E absentIds \in SUBSET (1..k) :
            LET roster == [i \in 1..NumStudents |->
                              [BaseStudent(i) EXCEPT
                                  !.groupOf = IF i <= k THEN rosterGroupOf
                                              ELSE otherGroupOf]]
                originals == [i \in 1..k |-> i]
                slot == [schedule_id |-> 1, day |-> Monday, time |-> T0900,
                         capacity |-> dbCapacity, coach_id |-> 1,
                         original_student_ids |-> originals]
                dayStatuses == [absent |-> absentIds, fillIns |-> <<>>]
            IN  /\ OriginalsBuildable(originals, dbCapacity, roster)
                /\ students = roster
                /\ daily_blocks = <<>>
                /\ schedule = slot
                /\ statuses = dayStatuses
                /\ today = Today
                /\ slotsNeedingFillins = get_slots_needing_fillins_v2(slot, dayStatuses, Today)
                /\ response = [status |-> 0, body |-> <<>>]
                /\ suggestionBox = [shown |-> FALSE, candidates |-> <<>>]
                /\ query = NoQuery
                /\ answer = NoQuery
                /\ session = [open               |-> TRUE,
                              todaysStatuses     |-> dayStatuses,
                              slotElement        |-> createSlotElement(slot, dayStatuses, roster),
                              selectedLessonSlot |-> <<>>,
                              slotActions        |-> FALSE,
                              manualAdd          |-> [shown |-> FALSE, results |-> <<>>],
                              requests           |-> {}]
                /\ realtime = NoRealtime

MaxOccupants == 2

\* The details of a student of a kind <<groupOf, sub_group>>
StudentObject(kind) ==
    JsObject([groupOf |-> JsNumber(kind[1]), sub_group |-> kind[2]])

\* Values that are no student's details with a numeric groupOf
MalformedDetails ==
    <<JsNull, JsUndefined, JsString("x"),
      JsObject([groupOf |-> JsUndefined, sub_group |-> NoSubGroup]),
      JsObject([groupOf |-> JsString("2"), sub_group |-> NoSubGroup]),
      JsObject([groupOf |-> JsNull, sub_group |-> NoSubGroup])>>

\* What an array of occupants may hold: the six kinds of student, null, and
\* details without groupOf
OccupantElements ==
    <<StudentObject(<<1, NoSubGroup>>), StudentObject(<<2, NoSubGroup>>),
      StudentObject(<<2, "A">>), StudentObject(<<3, NoSubGroup>>),
      StudentObject(<<3, "A">>), StudentObject(<<3, "B">>),
      JsNull, JsObject([groupOf |-> JsUndefined, sub_group |-> NoSubGroup])>>

\* Values that are no array
MalformedOccupants ==
    <<JsNull, JsUndefined, JsString("x"), JsNumber(0),
      StudentObject(<<3, NoSubGroup>>)>>

\* Values that are no number >= 1
MalformedCapacities ==
    <<JsNull, JsUndefined, JsString("2"), JsNumber(0 - 1), JsNumber(0)>>

PairingQuery(newStudentDetails, currentOccupantDetails, slotCapacity) ==
    [kind |-> "checkPairingRuleViolation", newStudentDetails |-> newStudentDetails,
     currentOccupantDetails |-> currentOccupantDetails, slotCapacity |-> slotCapacity]

\* checkPairingRuleViolation asked about one candidate, well-formed or not,
\* an occupant list of at most MaxOccupants elements or a value that is no
\* array, and a capacity, well-formed or not
InitPairing ==
    /\ \E candidate \in {StudentObject(kind) : kind \in StudentKinds}
                            \cup {MalformedDetails[i] : i \in DOMAIN MalformedDetails},
          capacity \in {JsNumber(c) : c \in 1..(MaxCapacity + 1)}
                           \cup {MalformedCapacities[i] : i \in DOMAIN MalformedCapacities} :
           \/ \E n \in 0..MaxOccupants :
                  \E f \in [1..n -> DOMAIN OccupantElements] :
                      query = PairingQuery(candidate,
                                           JsArray([i \in 1..n |-> OccupantElements[f[i]]]),
                                           capacity)
           \/ \E i \in DOMAIN MalformedOccupants :
                  query = PairingQuery(candidate, MalformedOccupants[i], capacity)
    /\ answer = NoQuery
    /\ session = NoSession
    /\ realtime = NoRealtime
    /\ students = <<>> /\ daily_blocks = <<>>
    /\ schedule = [schedule_id |-> 1, day |-> Monday, time |-> T0900,
                   capacity |-> DefaultDbCapacity, coach_id |-> 1,
                   original_student_ids |-> <<>>]
    /\ statuses = [absent |-> {}, fillIns |-> <<>>]
    /\ today = Today
    /\ slotsNeedingFillins = <<>>
    /\ response = [status |-> 0, body |-> <<>>]
    /\ suggestionBox = [shown |-> FALSE, candidates |-> <<>>]

(***************************************************************************)
(* Actions.  A behaviour is one request: either the edge function is       *)
(* called or the interactive tool is opened on the slot.                   *)
(***************************************************************************)
\* part_000 serve: the whole request, answered 200 with the results
Serve ==
    /\ query.kind = "none"
    /\ response.status = 0 /\ ~suggestionBox.shown
    /\ response' = [status |-> 200,
                    body   |-> serveResults(slotsNeedingFillins, potentialCandidates(students),
                                            students,
                                            FetchBlocks(daily_blocks, slotsNeedingFillins))]
    /\ UNCHANGED <<students, daily_blocks, schedule, statuses, today,
                   slotsNeedingFillins, suggestionBox, query, answer, session,
                   realtime>>

\* part_000 serve: a fetch fails, the catch block answers 500
ServeFetchError ==
    /\ query.kind = "none"
    /\ response.status = 0 /\ ~suggestionBox.shown
    /\ response' = [status |-> 500, body |-> <<>>]
    /\ UNCHANGED <<students, daily_blocks, schedule, statuses, today,
                   slotsNeedingFillins, suggestionBox, query, answer, session,
                   realtime>>

\* logViewer.js findAndDisplayAbsenceReplacements for the slot, from the
\* data attributes createSlotElement put on it
FindAndDisplayAbsenceReplacements ==
    /\ query.kind = "none"
    /\ response.status = 0 /\ ~suggestionBox.shown
    /\ LET currentStudentIds == currentStudentIdsOf(schedule.original_student_ids,
                                                    statuses.absent, statuses.fillIns)
           capacity == effectiveCapacityOf(schedule.capacity, schedule.original_student_ids,
                                           currentStudentIds, students)
           targetDate == today
           blocksForDate == fetchDailyBlocksForDate(daily_blocks, targetDate)
           backendCandidates == get_single_slot_suggestions(students, currentStudentIds)
       IN  suggestionBox' =
               [shown      |-> TRUE,
                candidates |-> availableCandidatesOf(backendCandidates, students,
                                   schedule.day, schedule.time, capacity,
                                   currentStudentIds, targetDate, schedule.coach_id,
                                   blocksForDate)]
    /\ UNCHANGED <<students, daily_blocks, schedule, statuses, today,
                   slotsNeedingFillins, response, query, answer, session,
                   realtime>>

\* js/utils.js isStudentAvailable called on its own
IsStudentAvailable ==
    /\ query.kind = "isStudentAvailable" /\ answer.kind = "none"
    /\ answer' = [kind   |-> "js/utils.js",
                  result |-> isStudentAvailable(
                                 [availability_string |-> query.availability_string],
                                 query.targetDay, query.targetTime)]
    /\ UNCHANGED <<students, daily_blocks, schedule, statuses, today,
                   slotsNeedingFillins, response, suggestionBox, query, session,
                   realtime>>

\* part_000 isStudentAvailable called on its own
IsStudentAvailableEdge ==
    /\ query.kind = "isStudentAvailable" /\ answer.kind = "none"
    /\ answer' = [kind   |-> "get-optimal-fill-ins",
                  result |-> isStudentAvailableEdge(query.availability_string,
                                                    query.targetDay, query.targetTime)]
    /\ UNCHANGED <<students, daily_blocks, schedule, statuses, today,
                   slotsNeedingFillins, response, suggestionBox, query, session,
                   realtime>>

\* js/logViewer.js isStudentBlocked called on its own
IsStudentBlocked ==
    /\ query.kind = "isStudentBlocked" /\ answer.kind = "none"
    /\ answer' = [kind   |-> "js/logViewer.js",
                  result |-> isStudentBlocked(query.studentDetails, query.blockDate,
                                              query.coachId, query.blocks)]
    /\ UNCHANGED <<students, daily_blocks, schedule, statuses, today,
                   slotsNeedingFillins, response, suggestionBox, query, session,
                   realtime>>

\* part_000 isStudentBlocked called on its own
IsStudentBlockedEdge ==
    /\ query.kind = "isStudentBlocked" /\ answer.kind = "none"
    /\ answer' = [kind   |-> "get-optimal-fill-ins",
                  result |-> isStudentBlockedEdge(query.studentDetails, query.blockDate,
                                                  query.coachId, query.blocks)]
    /\ UNCHANGED <<students, daily_blocks, schedule, statuses, today,
                   slotsNeedingFillins, response, suggestionBox, query, session,
                   realtime>>

\* js/utils.js checkPairingRuleViolation called on its own
CheckPairingRuleViolation ==
    /\ query.kind = "checkPairingRuleViolation" /\ answer.kind = "none"
    /\ answer' = [kind   |-> "js/utils.js",
                  result |-> checkPairingRuleViolationCall(query.newStudentDetails,
                                 query.currentOccupantDetails, query.slotCapacity)]
    /\ UNCHANGED <<students, daily_blocks, schedule, statuses, today,
                   slotsNeedingFillins, response, suggestionBox, query, session,
                   realtime>>

\* part_000 checkPairingRuleViolation called on its own
CheckPairingRuleViolationEdge ==
    /\ query.kind = "checkPairingRuleViolation" /\ answer.kind = "none"
    /\ answer' = [kind   |-> "get-optimal-fill-ins",
                  result |-> checkPairingRuleViolationEdgeCall(query.newStudentDetails,
                                 query.currentOccupantDetails, query.slotCapacity)]
    /\ UNCHANGED <<students, daily_blocks, schedule, statuses, today,
                   slotsNeedingFillins, response, suggestionBox, query, session,
                   realtime>>


(***************************************************************************)
(* The interactive tool.  A handler that awaits addDailyStatus is three    *)
(* steps: the click sends the request, the upsert reaches the table, the   *)
(* handler goes on after the await.  A request is a record                 *)
(* [studentId, handler, written].                                          *)
(***************************************************************************)
\* schedule.js handleSlotSelection on a slot that is not selected
HandleSlotSelection ==
    /\ session.open /\ session.selectedLessonSlot = <<>>
    /\ LET slotElement == session.slotElement
           slotDetails == [scheduleId        |-> slotElement.scheduleId,
                           day               |-> slotElement.day,
                           time              |-> slotElement.time,
                           coachId           |-> slotElement.coachId,
                           capacity          |-> slotElement.capacity,
                           originalStudentIds |-> slotElement.originalStudents,
                           currentStudentIds |-> slotElement.currentStudents]
           hasCapacity == Len(slotDetails.currentStudentIds) < slotDetails.capacity
           allOriginalsAbsent == /\ Len(slotDetails.originalStudentIds) > 0
                                 /\ Len(slotDetails.currentStudentIds) = 0
                                 /\ session.todaysStatuses.fillIns = <<>>
           showActionButtons == hasCapacity \/ allOriginalsAbsent
       IN  /\ session' = [session EXCEPT
                              !.selectedLessonSlot = <<slotDetails>>,
                              !.slotActions = showActionButtons,
                              !.manualAdd = [shown |-> FALSE, results |-> <<>>]]
           /\ suggestionBox' =
                  IF showActionButtons
                  THEN [shown      |-> TRUE,
                        candidates |-> absenceReplacementsFor(slotElement, students,
                                                              daily_blocks, today)]
                  ELSE [shown |-> FALSE, candidates |-> <<>>]
    /\ UNCHANGED <<students, daily_blocks, schedule, statuses, today,
                   slotsNeedingFillins, response, query, answer,
                   realtime>>

\* schedule.js handleSlotSelection on the selected slot, outside its
\* buttons: the slot is deselected
HandleSlotDeselection ==
    /\ session.open /\ session.selectedLessonSlot # <<>>
    /\ session' = [session EXCEPT !.selectedLessonSlot = <<>>, !.slotActions = FALSE]
    /\ suggestionBox' = [shown |-> FALSE, candidates |-> <<>>]
    /\ UNCHANGED <<students, daily_blocks, schedule, statuses, today,
                   slotsNeedingFillins, response, query, answer,
                   realtime>>

\* logViewer.js handleApplyFillInClick up to its await of addDailyStatus:
\* the Apply button clicked is disabled, the others stay enabled
HandleApplyFillInClick ==
    /\ session.open /\ suggestionBox.shown
    /\ AddsAskedFor(statuses, session.requests) < MaxAdds
    /\ \E i \in DOMAIN suggestionBox.candidates :
           LET request == [studentId |-> suggestionBox.candidates[i].id,
                           handler   |-> "handleApplyFillInClick"]
           IN  /\ \A r \in session.requests :
                      [studentId |-> r.studentId, handler |-> r.handler] # request
               /\ session' = [session EXCEPT
                                  !.requests = @ \cup {[studentId |-> request.studentId,
                                                        handler   |-> request.handler,
                                                        written   |-> FALSE]}]
    /\ UNCHANGED <<students, daily_blocks, schedule, statuses, today,
                   slotsNeedingFillins, response, suggestionBox, query, answer,
                   realtime>>

\* api.js addDailyStatus: the upsert of a request sent reaches the table
AddDailyStatus ==
    /\ session.open
    /\ \E r \in session.requests :
           /\ ~r.written /\ r.handler # "handleUndoAbsent"
           /\ statuses' = upsertAssignedFillIn(statuses, r.studentId)
           /\ session' = [session EXCEPT
                              !.requests = (@ \ {r}) \cup {[r EXCEPT !.written = TRUE]}]
    /\ UNCHANGED <<students, daily_blocks, schedule, today,
                   slotsNeedingFillins, response, suggestionBox, query, answer,
                   realtime>>

\* logViewer.js handleApplyFillInClick after the await: getTodaysStatuses,
\* reRenderSlot, then the box is closed for a full slot and filled anew
\* otherwise
ApplyFillInDone ==
    /\ session.open
    /\ \E r \in session.requests :
           /\ r.written /\ r.handler = "handleApplyFillInClick"
           /\ LET updatedSlotElement == createSlotElement(schedule, statuses, students)
                  isNowFull == Len(updatedSlotElement.currentStudents)
                                   >= updatedSlotElement.capacity
              IN  /\ session' = [session EXCEPT !.todaysStatuses = statuses,
                                                !.slotElement = updatedSlotElement,
                                                !.requests = @ \ {r}]
                  /\ suggestionBox' =
                         IF isNowFull THEN [shown |-> FALSE, candidates |-> <<>>]
                         ELSE [shown      |-> TRUE,
                               candidates |-> absenceReplacementsFor(updatedSlotElement,
                                                  students, daily_blocks, today)]
    /\ UNCHANGED <<students, daily_blocks, schedule, statuses, today,
                   slotsNeedingFillins, response, query, answer,
                   realtime>>

\* schedule.js handleShowManualAddUI, the onclick of the manual-add button
HandleShowManualAddUI ==
    /\ session.open /\ session.slotActions /\ ~session.manualAdd.shown
    /\ session' = [session EXCEPT !.manualAdd.shown = TRUE]
    /\ suggestionBox' = [shown |-> FALSE, candidates |-> <<>>]
    /\ UNCHANGED <<students, daily_blocks, schedule, statuses, today,
                   slotsNeedingFillins, response, query, answer,
                   realtime>>

\* schedule.js handleManualSearchInput
HandleManualSearchInput ==
    /\ session.open /\ session.manualAdd.shown
    /\ session.selectedLessonSlot # <<>>
    /\ \E searchTerm \in SearchTerms :
           session' = [session EXCEPT
                           !.manualAdd.results =
                               filteredStudents(searchTerm, session.selectedLessonSlot[1],
                                                students)]
    /\ UNCHANGED <<students, daily_blocks, schedule, statuses, today,
                   slotsNeedingFillins, response, suggestionBox, query, answer,
                   realtime>>

\* schedule.js handleAddManualStudentClick up to its await of addDailyStatus
HandleAddManualStudentClick ==
    /\ session.open /\ session.manualAdd.shown
    /\ session.selectedLessonSlot # <<>>
    /\ AddsAskedFor(statuses, session.requests) < MaxAdds
    /\ \E i \in DOMAIN session.manualAdd.results :
           LET request == [studentId |-> session.manualAdd.results[i],
                           handler   |-> "handleAddManualStudentClick"]
           IN  /\ \A r \in session.requests :
                      [studentId |-> r.studentId, handler |-> r.handler] # request
               /\ session' = [session EXCEPT
                                  !.requests = @ \cup {[studentId |-> request.studentId,
                                                        handler   |-> request.handler,
                                                        written   |-> FALSE]}]
    /\ UNCHANGED <<students, daily_blocks, schedule, statuses, today,
                   slotsNeedingFillins, response, suggestionBox, query, answer,
                   realtime>>

\* schedule.js handleAddManualStudentClick after the await: hideManualAddUI
\* and refreshCurrentCoachSchedule, which fetches the statuses and renders
\* the schedule again; appState.selectedLessonSlot is left as it is
AddManualStudentDone ==
    /\ session.open
    /\ \E r \in session.requests :
           /\ r.written /\ r.handler = "handleAddManualStudentClick"
           /\ session' = [session EXCEPT
                              !.manualAdd = [shown |-> FALSE, results |-> <<>>],
                              !.todaysStatuses = statuses,
                              !.slotElement = createSlotElement(schedule, statuses, students),
                              !.requests = @ \ {r}]
    /\ UNCHANGED <<students, daily_blocks, schedule, statuses, today,
                   slotsNeedingFillins, response, suggestionBox, query, answer,
                   realtime>>

Next == Serve \/ ServeFetchError \/ FindAndDisplayAbsenceReplacements

Spec == InitGrouping /\ [][Next]_vars

SpecEligibility == InitEligibility /\ [][Next]_vars

SpecRanking == InitRanking /\ [][Next]_vars

SpecIdempotence == InitIdempotence /\ [][Next]_vars

SpecBatch == InitBatch /\ [][Next]_vars

NextAvailability == IsStudentAvailable \/ IsStudentAvailableEdge

SpecAvailability == InitAvailability /\ [][NextAvailability]_vars

NextBlocks == IsStudentBlocked \/ IsStudentBlockedEdge

SpecBlocks == InitBlocks /\ [][NextBlocks]_vars

(***************************************************************************)
(* Client: the roster in appState.studentsData as api.js fetchStudents      *)
(* builds it.  The select names the columns id, Name, class_name,          *)
(* availability, groupOf, sub_group, "lessons owed", is_active, so a row   *)
(* has no property availability_string until a lookup writes one.  groupOf *)
(* is kept as a JavaScript value here, since a null is told from a number  *)
(* by typeof; a null Name is "", a null availability or class_name << >>.  *)
(***************************************************************************)
\* The object with that property set to that value
WithProperty(object, property, value) ==
    [f \in DOMAIN object \cup {property} |->
        IF f = property THEN value ELSE object[f]]

\* A row of the roster as fetchStudents returns it
FetchedStudent(i, groupOf, availability) ==
    [id |-> i, Name |-> "Student", class_name |-> Year7A, availability |-> availability,
     groupOf |-> groupOf, sub_group |-> NoSubGroup, lessons_owed |-> 1, is_active |-> TRUE]

\* js/utils.js getStudentDetails, lines 38-63: foundStudent after the
\* assignments that default its properties
DefaultedInPlace(foundStudent) ==
    LET named     == IF "Name" \in DOMAIN foundStudent THEN foundStudent
                     ELSE WithProperty(foundStudent, "Name",
                                       IF "name" \in DOMAIN foundStudent
                                       THEN foundStudent.name ELSE "")
        grouped   == IF named.groupOf.type = "number" THEN named
                     ELSE WithProperty(named, "groupOf", JsNumber(1))
        subbed    == IF "sub_group" \in DOMAIN grouped THEN grouped
                     ELSE WithProperty(grouped, "sub_group", NoSubGroup)
        classed   == IF "class_name" \in DOMAIN subbed THEN subbed
                     ELSE WithProperty(subbed, "class_name", <<>>)
    IN  IF "availability_string" \in DOMAIN classed THEN classed
        ELSE WithProperty(classed, "availability_string",
                          IF "availability" \in DOMAIN classed
                          THEN classed.availability ELSE <<>>)

\* The index of the row studentsData.find(s => s.id === idToFind) returns,
\* 0 where it returns undefined
FoundIndex(studentId, studentsData) ==
    LET found == {i \in DOMAIN studentsData : studentsData[i].id = studentId}
    IN  IF found = {} THEN 0 ELSE CHOOSE i \in found : \A j \in found : i <= j

\* js/utils.js getStudentDetails: the array studentsData after the call
studentsDataAfterLookup(studentId, studentsData) ==
    IF FoundIndex(studentId, studentsData) = 0 THEN studentsData
    ELSE [studentsData EXCEPT ![FoundIndex(studentId, studentsData)] = DefaultedInPlace(@)]

\* js/utils.js getStudentDetails: what the call returns, the row itself or
\* the default object
getStudentDetailsReturn(studentId, studentsData) ==
    IF \/ FoundIndex(studentId, studentsData) = 0
       \/ DefaultedInPlace(studentsData[FoundIndex(studentId, studentsData)]).Name = ""
    THEN [name |-> "Unknown Student", id |-> studentId, groupOf |-> JsNumber(1),
          sub_group |-> NoSubGroup, class_name |-> <<>>, availability_string |-> <<>>]
    ELSE DefaultedInPlace(studentsData[FoundIndex(studentId, studentsData)])

\* The roster as fetched: every student's groupOf is null or 2, its
\* availability null or Monday 09:00; nothing has been looked up
InitLookup ==
    /\ \E groupOf \in [1..NumStudents -> {JsNull, JsNumber(2)}],
          availability \in [1..NumStudents -> {<<>>, AvailMonday0900}] :
           students = [i \in 1..NumStudents |->
                          FetchedStudent(i, groupOf[i], availability[i])]
    /\ query = NoQuery
    /\ answer = NoQuery
    /\ session = NoSession
    /\ realtime = NoRealtime
    /\ daily_blocks = <<>>
    /\ schedule = [schedule_id |-> 1, day |-> Monday, time |-> T0900,
                   capacity |-> DefaultDbCapacity, coach_id |-> 1,
                   original_student_ids |-> <<>>]
    /\ statuses = [absent |-> {}, fillIns |-> <<>>]
    /\ today = Today
    /\ slotsNeedingFillins = <<>>
    /\ response = [status |-> 0, body |-> <<>>]
    /\ suggestionBox = [shown |-> FALSE, candidates |-> <<>>]

\* js/utils.js getStudentDetails called with the id of a student of the
\* roster or with an id the roster does not hold
GetStudentDetails ==
    /\ \E studentId \in 1..(NumStudents + 1) :
           /\ query' = [kind |-> "getStudentDetails", studentId |-> studentId]
           /\ answer' = [kind   |-> "js/utils.js",
                         result |-> getStudentDetailsReturn(studentId, students)]
           /\ students' = studentsDataAfterLookup(studentId, students)
    /\ UNCHANGED <<daily_blocks, schedule, statuses, today, slotsNeedingFillins,
                   response, suggestionBox, session,
                   realtime>>

NextLookup == GetStudentDetails

SpecLookup == InitLookup /\ [][NextLookup]_vars

(***************************************************************************)
(* Client: the students of a slot today, as the schedule renders them and  *)
(* as the inline log form logs them.  appState.todaysStatuses is the list  *)
(* api.js getTodaysStatuses fetched: rows [student_id, lesson_schedule_id, *)
(* status] of today, of every slot, at most one per student and slot (the  *)
(* upsert of addDailyStatus is on student, slot and date).                 *)
(***************************************************************************)
\* todaysStatuses.filter(s => s.lesson_schedule_id === scheduleId)
slotStatusesOf(todaysStatuses, scheduleId) ==
    LET OfSlot(s) == s.lesson_schedule_id = scheduleId
    IN  SelectSeq(todaysStatuses, OfSlot)

\* slotStatuses.filter(s => s.status === status).map(s => s.student_id)
studentIdsWithStatus(slotStatuses, status) ==
    LET HasStatus(s) == s.status = status
        rows == SelectSeq(slotStatuses, HasStatus)
    IN  [i \in DOMAIN rows |-> rows[i].student_id]

\* schedule.js createSlotElement, lines 82-95 outside edit mode:
\* currentStudentIds
currentStudentIdsRendered(slot, todaysStatuses) ==
    LET slotStatuses     == slotStatusesOf(todaysStatuses, slot.schedule_id)
        absentStudentIds == Range(studentIdsWithStatus(slotStatuses, "marked_absent"))
        fillInStudentIds == studentIdsWithStatus(slotStatuses, "assigned_fill_in")
    IN  currentStudentIdsOf(slot.original_student_ids, absentStudentIds, fillInStudentIds)

\* logging.js _getPresentStudentIds for a slot of today (isPastLog false)
getPresentStudentIds(slotDetails, todaysStatuses) ==
    LET slotStatuses      == slotStatusesOf(todaysStatuses, slotDetails.scheduleId)
        absentStudentIds  == Range(studentIdsWithStatus(slotStatuses, "marked_absent"))
        fillInStudentIds  == studentIdsWithStatus(slotStatuses, "assigned_fill_in")
        Present(id)       == id \notin absentStudentIds
        presentOriginalIds == SelectSeq(slotDetails.originalStudentIds, Present)
    IN  Dedup(presentOriginalIds \o fillInStudentIds, {})

\* logging.js _gatherInlineFormData: one entry per present student
gatherInlineFormData(presentStudentIds) ==
    [i \in DOMAIN presentStudentIds |->
        [student_id |-> presentStudentIds[i], attendance_status |-> "Present",
         owed_change |-> 0 - 1]]

\* The forEach over absentStatuses: an entry per status whose student has
\* not been processed
RECURSIVE AbsentEntriesOfStatuses(_, _)
AbsentEntriesOfStatuses(absentIds, processedIds) ==
    IF absentIds = <<>> THEN <<>>
    ELSE IF Head(absentIds) \in processedIds
    THEN AbsentEntriesOfStatuses(Tail(absentIds), processedIds)
    ELSE <<[student_id |-> Head(absentIds), attendance_status |-> "Absent",
            owed_change |-> 0]>>
             \o AbsentEntriesOfStatuses(Tail(absentIds), processedIds \cup {Head(absentIds)})

\* The forEach over originalStudentIds without its test: an entry per
\* original student
AbsentEntriesOfEveryOriginal(originalStudentIds, presentSet, processedIds) ==
    [i \in DOMAIN originalStudentIds |->
        [student_id |-> originalStudentIds[i], attendance_status |-> "Absent",
         owed_change |-> 0]]

\* The forEach over originalStudentIds: an entry per original student that
\* is neither present nor processed
RECURSIVE AbsentEntriesOfOriginals(_, _, _)
AbsentEntriesOfOriginals(originalStudentIds, presentSet, processedIds) ==
    IF originalStudentIds = <<>> THEN <<>>
    ELSE IF Head(originalStudentIds) \in presentSet \cup processedIds
    THEN AbsentEntriesOfOriginals(Tail(originalStudentIds), presentSet, processedIds)
    ELSE <<[student_id |-> Head(originalStudentIds), attendance_status |-> "Absent",
            owed_change |-> 0]>>
             \o AbsentEntriesOfOriginals(Tail(originalStudentIds), presentSet,
                                         processedIds \cup {Head(originalStudentIds)})

\* logging.js _createAbsentStudentLogEntries for a slot of today
createAbsentStudentLogEntries(scheduleId, originalStudentIds, presentStudentIds, todaysStatuses) ==
    LET absentIds == studentIdsWithStatus(slotStatusesOf(todaysStatuses, scheduleId),
                                          "marked_absent")
    IN  AbsentEntriesOfStatuses(absentIds, {})
            \o AbsentEntriesOfOriginals(originalStudentIds, Range(presentStudentIds),
                                        Range(absentIds))

\* logging.js handleLogSubmit, lines 456-489: finalPayload for the slot
\* selected
finalPayload(selectedLessonSlot, todaysStatuses) ==
    LET presentStudentIds == getPresentStudentIds(selectedLessonSlot, todaysStatuses)
    IN  gatherInlineFormData(presentStudentIds)
            \o createAbsentStudentLogEntries(selectedLessonSlot.scheduleId,
                                             selectedLessonSlot.originalStudentIds,
                                             presentStudentIds, todaysStatuses)

\* The statuses of today a student can have for a slot
StatusValues == {"none", "marked_absent", "assigned_fill_in"}

\* The rows of todaysStatuses for two slots: row p is of student
\* (p - 1) \div 2 + 1 and slot (p - 1) % 2 + 1
StatusRows(statusOf) ==
    LET Exists(row) == row.status # "none"
    IN  SelectSeq([p \in 1..(2 * NumStudents) |->
                      [student_id         |-> ((p - 1) \div 2) + 1,
                       lesson_schedule_id |-> ((p - 1) % 2) + 1,
                       status             |-> statusOf[p]]], Exists)

\* A slot of today with the first k students on its roster, selected on the
\* schedule page, and any statuses of today for it and for another slot
InitLogForm ==
    /\ \E statusOf \in [1..(2 * NumStudents) -> StatusValues], k \in 0..(NumStudents - 1) :
           /\ schedule = [schedule_id |-> 1, day |-> Monday, time |-> T0900,
                          capacity |-> DefaultDbCapacity, coach_id |-> 1,
                          original_student_ids |-> [i \in 1..k |-> i]]
           /\ query = [kind |-> "logForm",
                       selectedLessonSlot |->
                           [scheduleId |-> 1, coachId |-> 1,
                            originalStudentIds |-> [i \in 1..k |-> i]],
                       todaysStatuses |-> StatusRows(statusOf)]
    /\ answer = NoQuery
    /\ session = NoSession
    /\ realtime = NoRealtime
    /\ students = [i \in 1..NumStudents |-> BaseStudent(i)]
    /\ daily_blocks = <<>>
    /\ statuses = [absent |-> {}, fillIns |-> <<>>]
    /\ today = Today
    /\ slotsNeedingFillins = <<>>
    /\ response = [status |-> 0, body |-> <<>>]
    /\ suggestionBox = [shown |-> FALSE, candidates |-> <<>>]

\* schedule.js createSlotElement renders the slot
CreateSlotElement ==
    /\ query.kind = "logForm" /\ answer.kind = "none"
    /\ answer' = [kind   |-> "createSlotElement",
                  result |-> currentStudentIdsRendered(schedule, query.todaysStatuses)]
    /\ UNCHANGED <<students, daily_blocks, schedule, statuses, today,
                   slotsNeedingFillins, response, suggestionBox, query, session,
                   realtime>>

\* logging.js populateInlineLogForm asks for the students to log
GetPresentStudentIds ==
    /\ query.kind = "logForm" /\ answer.kind = "none"
    /\ answer' = [kind   |-> "_getPresentStudentIds",
                  result |-> getPresentStudentIds(query.selectedLessonSlot,
                                                  query.todaysStatuses)]
    /\ UNCHANGED <<students, daily_blocks, schedule, statuses, today,
                   slotsNeedingFillins, response, suggestionBox, query, session,
                   realtime>>

\* logging.js handleLogSubmit for the slot selected: the payload handed to
\* submitLogAndUpdates; nothing is submitted where a rating of a present
\* student is missing (line 478) or the payload is empty (lines 491, 506)
HandleLogSubmit ==
    /\ query.kind = "logForm" /\ answer.kind = "none"
    /\ \E everyRatingChosen \in BOOLEAN :
           LET presentStudentIds == getPresentStudentIds(query.selectedLessonSlot,
                                                         query.todaysStatuses)
               payload == finalPayload(query.selectedLessonSlot, query.todaysStatuses)
               isValid == everyRatingChosen \/ presentStudentIds = <<>>
           IN  answer' = [kind      |-> "handleLogSubmit",
                          submitted |-> isValid /\ payload # <<>>,
                          result    |-> IF isValid THEN payload ELSE <<>>]
    /\ UNCHANGED <<students, daily_blocks, schedule, statuses, today,
                   slotsNeedingFillins, response, suggestionBox, query, session,
                   realtime>>

NextLogForm == CreateSlotElement \/ GetPresentStudentIds \/ HandleLogSubmit

SpecLogForm == InitLogForm /\ [][NextLogForm]_vars

NextPairing == CheckPairingRuleViolation \/ CheckPairingRuleViolationEdge

SpecPairing == InitPairing /\ [][NextPairing]_vars

NextSession ==
    \/ HandleSlotSelection \/ HandleSlotDeselection
    \/ HandleApplyFillInClick \/ AddDailyStatus \/ ApplyFillInDone
    \/ HandleShowManualAddUI \/ HandleManualSearchInput
    \/ HandleAddManualStudentClick \/ AddManualStudentDone

SpecSession == InitSession /\ [][NextSession]_vars

\* logViewer.js handleUndoAbsent up to its await of removeDailyStatus: the
\* undo button is rendered beside every original student marked absent
\* (schedule.js createSlotElement 183-190, createStudentEntryElement 299-311)
HandleUndoAbsent ==
    /\ session.open
    /\ \E i \in DOMAIN session.slotElement.originalStudents :
           LET studentId == session.slotElement.originalStudents[i]
           IN  /\ studentId \in session.todaysStatuses.absent
               /\ \A r \in session.requests :
                      ~(r.studentId = studentId /\ r.handler = "handleUndoAbsent")
               /\ session' = [session EXCEPT
                                  !.requests = @ \cup {[studentId |-> studentId,
                                                        handler   |-> "handleUndoAbsent",
                                                        written   |-> FALSE]}]
    /\ UNCHANGED <<students, daily_blocks, schedule, statuses, today,
                   slotsNeedingFillins, response, suggestionBox, query, answer,
                   realtime>>

\* api.js removeDailyStatus: the delete of an undo request reaches the table
RemoveDailyStatus ==
    /\ session.open
    /\ \E r \in session.requests :
           /\ ~r.written /\ r.handler = "handleUndoAbsent"
           /\ statuses' = removeDailyStatus(statuses, r.studentId)
           /\ session' = [session EXCEPT
                              !.requests = (@ \ {r}) \cup {[r EXCEPT !.written = TRUE]}]
    /\ UNCHANGED <<students, daily_blocks, schedule, today,
                   slotsNeedingFillins, response, suggestionBox, query, answer,
                   realtime>>

\* logViewer.js handleUndoAbsent after the await: refreshCurrentCoachSchedule
\* fetches the statuses and renders the schedule again, then the suggestion
\* box of the slot is closed
UndoAbsentDone ==
    /\ session.open
    /\ \E r \in session.requests :
           /\ r.written /\ r.handler = "handleUndoAbsent"
           /\ session' = [session EXCEPT
                              !.todaysStatuses = statuses,
                              !.slotElement = createSlotElement(schedule, statuses, students),
                              !.requests = @ \ {r}]
           /\ suggestionBox' = [shown |-> FALSE, candidates |-> <<>>]
    /\ UNCHANGED <<students, daily_blocks, schedule, statuses, today,
                   slotsNeedingFillins, response, query, answer,
                   realtime>>

\* The page with its absence handlers: a slot is selected, a suggested
\* fill-in is applied, an absence is undone
NextAbsence ==
    \/ HandleSlotSelection \/ HandleSlotDeselection
    \/ HandleApplyFillInClick \/ AddDailyStatus \/ ApplyFillInDone
    \/ HandleUndoAbsent \/ RemoveDailyStatus \/ UndoAbsentDone

SpecAbsence == InitSession /\ [][NextAbsence]_vars

(***************************************************************************)
(* Client: js/realtime.js and js/state.js toggleTestMode.  The module      *)
(* keeps realtimeChannel, currentSubscriptionTable and isCleaningUp;       *)
(* appState keeps isTestMode.  A channel is the index into channels of the *)
(* record made when supabaseClient.channel(...).subscribe(...) ran: its    *)
(* table and where it stands (joining, joined, errored, leaving once       *)
(* unsubscribe was called on it, closed).  0 is null.  A call is a record  *)
(* of the function called, the await it is parked at and its locals; the   *)
(* code runs without interruption between two awaits, and an await of a    *)
(* cleanup that returned at once resumes its caller in the same step.      *)
(* channelError remembers that a callback reported CHANNEL_ERROR, TIMED_OUT *)
(* or an error, or CLOSED while no cleanup was running; rejection that a   *)
(* promise of unsubscribe or removeChannel was rejected.                   *)
(***************************************************************************)
MaxCalls == 3

NullTable == "null"

\* realtime.js:143: appState.isTestMode ? '..._test' : '...'
TableOfMode(isTestMode) ==
    IF isTestMode THEN "daily_attendance_status_test" ELSE "daily_attendance_status"

\* A call that has returned
CompletedCall(call) ==
    [call |-> call, pc |-> "done", then |-> "return",
     targetTable |-> NullTable, channelToRemove |-> 0]

\* A call that has just been made
StartedCall(call) ==
    [call |-> call, pc |-> "running", then |-> "return",
     targetTable |-> NullTable, channelToRemove |-> 0]

Return(rt, i) == [rt EXCEPT !.calls[i] = CompletedCall(@.call)]

\* channelToRemove.unsubscribe() is called on a channel
Unsubscribing(channel) ==
    IF channel.status \in {"joining", "joined", "errored"}
    THEN [channel EXCEPT !.status = "leaving"]
    ELSE channel

\* realtime.js cleanupRealtimeSubscription up to its first await: both
\* early returns were not taken
cleanupUntilUnsubscribe(rt, i, then, targetTable) ==
    [rt EXCEPT !.isCleaningUp = TRUE,
               !.channels[rt.realtimeChannel] = Unsubscribing(@),
               !.calls[i] = [@ EXCEPT !.pc = "unsubscribe",
                                      !.then = then,
                                      !.targetTable = targetTable,
                                      !.channelToRemove = rt.realtimeChannel]]

\* The two early returns of cleanupRealtimeSubscription
cleanupReturnsAtOnce(rt) == rt.isCleaningUp \/ rt.realtimeChannel = 0

\* realtime.js:155-209 after the await of the cleanup: the channel is
\* created and subscribed, the callback has not run yet
subscribeNewChannel(rt, i, targetTable) ==
    Return([rt EXCEPT !.channels = Append(@, [table  |-> targetTable,
                                               status |-> "joining"]),
                      !.realtimeChannel = Len(rt.channels) + 1], i)

\* realtime.js setupRealtimeSubscription from its entry
setupRealtimeSubscription(rt, i) ==
    IF rt.isCleaningUp
    THEN Return(rt, i)
    ELSE IF rt.realtimeChannel # 0
            /\ rt.currentSubscriptionTable = TableOfMode(rt.isTestMode)
    THEN Return(rt, i)
    ELSE IF cleanupReturnsAtOnce(rt)
    THEN subscribeNewChannel(rt, i, TableOfMode(rt.isTestMode))
    ELSE cleanupUntilUnsubscribe(rt, i, "subscribe", TableOfMode(rt.isTestMode))

\* state.js toggleTestMode up to its first await that waits
toggleTestMode(rt, i) ==
    IF cleanupReturnsAtOnce(rt)
    THEN [rt EXCEPT !.isTestMode = ~rt.isTestMode,
                    !.calls[i] = [@ EXCEPT !.pc = "refreshDataForMode"]]
    ELSE cleanupUntilUnsubscribe([rt EXCEPT !.isTestMode = ~rt.isTestMode],
                                 i, "refreshDataForMode", NullTable)

\* cleanupRealtimeSubscription called on its own (part_002:243)
cleanupRealtimeSubscription(rt, i) ==
    IF cleanupReturnsAtOnce(rt)
    THEN Return(rt, i)
    ELSE cleanupUntilUnsubscribe(rt, i, "return", NullTable)

\* What the caller of the cleanup does once the cleanup has returned
AfterCleanup(rt, i) ==
    IF rt.calls[i].then = "refreshDataForMode"
    THEN [rt EXCEPT !.calls[i] = [@ EXCEPT !.pc = "refreshDataForMode"]]
    ELSE IF rt.calls[i].then = "subscribe"
    THEN subscribeNewChannel(rt, i, rt.calls[i].targetTable)
    ELSE Return(rt, i)

\* A cleanup that leaves the flag set when removeChannel failed
cleanupFinallyUnlessRejected(rt, i, rejected) ==
    AfterCleanup(
        [rt EXCEPT !.realtimeChannel =
                       IF @ = rt.calls[i].channelToRemove THEN 0 ELSE @,
                   !.currentSubscriptionTable =
                       IF rt.realtimeChannel = rt.calls[i].channelToRemove
                       THEN NullTable ELSE @,
                   !.isCleaningUp = rejected], i)

\* realtime.js:245-271, from the moment removeChannel has settled: a
\* rejection is caught and logged, the state is reset when the channel is
\* still the active one, the flag is reset
cleanupFinally(rt, i, rejected) ==
    AfterCleanup(
        [rt EXCEPT !.realtimeChannel =
                       IF @ = rt.calls[i].channelToRemove THEN 0 ELSE @,
                   !.currentSubscriptionTable =
                       IF rt.realtimeChannel = rt.calls[i].channelToRemove
                       THEN NullTable ELSE @,
                   !.isCleaningUp = FALSE], i)

\* realtime.js:165-190, 191-201: the callback of channel ch is called with
\* CHANNEL_ERROR, TIMED_OUT, CLOSED or an error
resetOnStatusError(rt, ch) ==
    IF rt.realtimeChannel # 0
       /\ rt.channels[rt.realtimeChannel].table = rt.channels[ch].table
    THEN [rt EXCEPT !.realtimeChannel = 0, !.currentSubscriptionTable = NullTable]
    ELSE rt

\* The page as loaded: live mode, nothing subscribed, no call made
InitRealtime ==
    /\ realtime = [loaded                   |-> TRUE,
                   isTestMode               |-> FALSE,
                   realtimeChannel          |-> 0,
                   currentSubscriptionTable |-> NullTable,
                   isCleaningUp             |-> FALSE,
                   channels                 |-> <<>>,
                   calls                    |-> <<>>,
                   channelError             |-> FALSE,
                   rejection                |-> FALSE]
    /\ query = NoQuery
    /\ answer = NoQuery
    /\ session = NoSession
    /\ students = <<>>
    /\ daily_blocks = <<>>
    /\ schedule = [schedule_id |-> 1, day |-> Monday, time |-> T0900,
                   capacity |-> DefaultDbCapacity, coach_id |-> 1,
                   original_student_ids |-> <<>>]
    /\ statuses = [absent |-> {}, fillIns |-> <<>>]
    /\ today = Today
    /\ slotsNeedingFillins = <<>>
    /\ response = [status |-> 0, body |-> <<>>]
    /\ suggestionBox = [shown |-> FALSE, candidates |-> <<>>]

Called(call) == [realtime EXCEPT !.calls = Append(@, StartedCall(call))]

\* main.js:93: the test-mode button is clicked
ToggleTestMode ==
    /\ Len(realtime.calls) < MaxCalls
    /\ realtime' = toggleTestMode(Called("toggleTestMode"), Len(realtime.calls) + 1)
    /\ UNCHANGED <<students, daily_blocks, schedule, statuses, today,
                   slotsNeedingFillins, response, suggestionBox, query, answer,
                   session>>

\* part_002:208, 351: the subscription is set up on its own
SetupRealtimeSubscription ==
    /\ Len(realtime.calls) < MaxCalls
    /\ realtime' = setupRealtimeSubscription(Called("setupRealtimeSubscription"),
                                             Len(realtime.calls) + 1)
    /\ UNCHANGED <<students, daily_blocks, schedule, statuses, today,
                   slotsNeedingFillins, response, suggestionBox, query, answer,
                   session>>

\* part_002:243: the subscription is cleaned up on its own
CleanupRealtimeSubscription ==
    /\ Len(realtime.calls) < MaxCalls
    /\ realtime' = cleanupRealtimeSubscription(Called("cleanupRealtimeSubscription"),
                                               Len(realtime.calls) + 1)
    /\ UNCHANGED <<students, daily_blocks, schedule, statuses, today,
                   slotsNeedingFillins, response, suggestionBox, query, answer,
                   session>>

\* realtime.js:236-243: the promise of unsubscribe settles, resolved or
\* rejected; a rejection is
\* caught and logged, and removeChannel is called
UnsubscribeSettles ==
    /\ \E i \in 1..Len(realtime.calls), rejected \in BOOLEAN :
           /\ realtime.calls[i].pc = "unsubscribe"
           /\ realtime' = [realtime EXCEPT
                  !.calls[i] = [@ EXCEPT !.pc = "removeChannel"],
                  !.rejection = @ \/ rejected]
    /\ UNCHANGED <<students, daily_blocks, schedule, statuses, today,
                   slotsNeedingFillins, response, suggestionBox, query, answer,
                   session>>

\* realtime.js:245-271: the promise of removeChannel settles, resolved or
\* rejected, and the caller of the cleanup goes on
RemoveChannelSettles ==
    /\ \E i \in 1..Len(realtime.calls), rejected \in BOOLEAN :
           /\ realtime.calls[i].pc = "removeChannel"
           /\ realtime' = [cleanupFinally(realtime, i, rejected) EXCEPT
                  !.rejection = @ \/ rejected]
    /\ UNCHANGED <<students, daily_blocks, schedule, statuses, today,
                   slotsNeedingFillins, response, suggestionBox, query, answer,
                   session>>

\* state.js:100-106: refreshDataForMode has returned, setup is called
RefreshDataForModeSettles ==
    /\ \E i \in 1..Len(realtime.calls) :
           /\ realtime.calls[i].pc = "refreshDataForMode"
           /\ realtime' = setupRealtimeSubscription(realtime, i)
    /\ UNCHANGED <<students, daily_blocks, schedule, statuses, today,
                   slotsNeedingFillins, response, suggestionBox, query, answer,
                   session>>

\* realtime.js:162-164: the callback of a channel is called with SUBSCRIBED
OnSubscribed ==
    /\ \E ch \in 1..Len(realtime.channels) :
           /\ realtime.channels[ch].status = "joining"
           /\ realtime' = [realtime EXCEPT
                  !.channels[ch] = [@ EXCEPT !.status = "joined"],
                  !.currentSubscriptionTable = realtime.channels[ch].table]
    /\ UNCHANGED <<students, daily_blocks, schedule, statuses, today,
                   slotsNeedingFillins, response, suggestionBox, query, answer,
                   session>>

\* realtime.js:165-190: the callback of a channel that was unsubscribed is
\* called with CLOSED; outside a cleanup the user is told that live updates
\* are disconnected (186-190)
OnClosed ==
    /\ \E ch \in 1..Len(realtime.channels) :
           /\ realtime.channels[ch].status = "leaving"
           /\ realtime' = [resetOnStatusError(realtime, ch) EXCEPT
                  !.channels[ch] = [@ EXCEPT !.status = "closed"],
                  !.channelError = @ \/ ~realtime.isCleaningUp]
    /\ UNCHANGED <<students, daily_blocks, schedule, statuses, today,
                   slotsNeedingFillins, response, suggestionBox, query, answer,
                   session>>

\* realtime.js:165-201: the callback of a channel that was not unsubscribed
\* is called with CHANNEL_ERROR, TIMED_OUT or an error
OnChannelError ==
    /\ \E ch \in 1..Len(realtime.channels) :
           /\ realtime.channels[ch].status \in {"joining", "joined"}
           /\ realtime' = [resetOnStatusError(realtime, ch) EXCEPT
                  !.channels[ch] = [@ EXCEPT !.status = "errored"],
                  !.channelError = TRUE]
    /\ UNCHANGED <<students, daily_blocks, schedule, statuses, today,
                   slotsNeedingFillins, response, suggestionBox, query, answer,
                   session>>

NextRealtime ==
    \/ ToggleTestMode \/ SetupRealtimeSubscription \/ CleanupRealtimeSubscription
    \/ UnsubscribeSettles \/ RemoveChannelSettles \/ RefreshDataForModeSettles
    \/ OnSubscribed \/ OnClosed \/ OnChannelError

SpecRealtime == InitRealtime /\ [][NextRealtime]_vars

\* The promises of unsubscribe and removeChannel settle
SpecRealtimeFair ==
    /\ SpecRealtime
    /\ WF_vars(UnsubscribeSettles)
    /\ WF_vars(RemoveChannelSettles)



(***************************************************************************)
(* Properties of the recommender                                           *)
(***************************************************************************)
\* The group sizes of the occupants the edge function reasons about for a
\* result: the slot's roster students, then the recommended members
GroupSizesIn(result) ==
    LET existing == existingStudentsDetails(result, students)
    IN  [i \in DOMAIN existing |-> existing[i].groupOf]
            \o [i \in DOMAIN result.recommended_group |->
                   result.recommended_group[i].groupOf]

SubGroupsIn(result) ==
    LET existing == existingStudentsDetails(result, students)
    IN  {existing[i].subGroup : i \in DOMAIN existing}
            \cup {result.recommended_group[i].subGroup :
                     i \in DOMAIN result.recommended_group}

\* The slot of the request, as the edge function receives it
TheSlot == slotsNeedingFillins[1]

\* The candidates of the request's slot, sorted, as the greedy loop reads them
TheSortedCandidates ==
    sortedCandidatesFor(TheSlot, students, FetchBlocks(daily_blocks, slotsNeedingFillins))

\* The students in the slot today, as the interactive tool receives them
TheCurrentStudents ==
    DetailsOf(currentStudentIdsOf(schedule.original_student_ids,
                                  statuses.absent, statuses.fillIns), students)

C3_SubGroupCohesion ==
    response.status = 200 =>
        \A i \in DOMAIN response.body :
            Cardinality(SubGroupsIn(response.body[i]) \ {NoSubGroup}) <= 1


(***************************************************************************)
(* Properties of the candidate filter                                      *)
(***************************************************************************)
\* The students row of a recommended member or a suggested candidate
RowOf(studentId) ==
    students[CHOOSE i \in DOMAIN students : students[i].id = studentId]

\* C4: every recommended member, and every candidate the interactive tool
\* suggests, is available at the slot's day and start time according to the
\* availability model of js/utils.js.
C4_AvailabilitySoundness ==
    /\ response.status = 200 =>
           \A i \in DOMAIN response.body :
               \A j \in DOMAIN response.body[i].recommended_group :
                   isStudentAvailable(
                       RowOf(response.body[i].recommended_group[j].student_id),
                       TheSlot.day_of_week, TheSlot.start_time)
    /\ suggestionBox.shown =>
           \A i \in DOMAIN suggestionBox.candidates :
               isStudentAvailable(RowOf(suggestionBox.candidates[i].id),
                                  schedule.day, schedule.time)

C6_MissingDateRejected ==
    response.status = 200 =>
        \A i \in DOMAIN response.body :
            response.body[i].slot_date = NoDate
                => response.body[i].recommended_group = <<>>

\* C7: no student whose is_active is false is recommended by the edge
\* function or suggested by the interactive tool.
C7_InactiveNeverOffered ==
    /\ response.status = 200 =>
           \A i \in DOMAIN response.body :
               \A j \in DOMAIN response.body[i].recommended_group :
                   RowOf(response.body[i].recommended_group[j].student_id).is_active
    /\ suggestionBox.shown =>
           \A i \in DOMAIN suggestionBox.candidates :
               RowOf(suggestionBox.candidates[i].id).is_active


(***************************************************************************)
(* Properties of the ranking                                               *)
(***************************************************************************)
\* The position of a student in the students table: the input order
PositionOf(studentId) ==
    CHOOSE i \in DOMAIN students : students[i].id = studentId

\* The candidates that pass the slot's filter, in input order
TheCandidates ==
    candidatesForSlot(TheSlot, students, FetchBlocks(daily_blocks, slotsNeedingFillins))

\* TRUE where the candidates, in input order, owe exactly the lessons in owed
CandidatesOwe(owed) ==
    [i \in DOMAIN TheCandidates |-> TheCandidates[i].lessons_owed] = owed

\* C8: the recommended members are in non-increasing order of lessons
\* owed, members that owe the same appear in input order, no candidate left
\* out owes more than a recommended member or owes the same and comes earlier
\* in the input, and candidates A, B, C, D owing 5, 5, 3, 1 with two places
\* needed give [A, B].
C8_RankingDeterminism ==
    response.status = 200 =>
        \A r \in DOMAIN response.body :
            LET rec == response.body[r].recommended_group
                ids == {rec[i].student_id : i \in DOMAIN rec}
            IN  /\ \A i, j \in DOMAIN rec :
                       i < j =>
                           /\ rec[i].lessons_owed >= rec[j].lessons_owed
                           /\ rec[i].lessons_owed = rec[j].lessons_owed
                                  => PositionOf(rec[i].student_id)
                                         < PositionOf(rec[j].student_id)
                /\ \A c \in DOMAIN TheCandidates, i \in DOMAIN rec :
                       TheCandidates[c].id \notin ids =>
                           \/ rec[i].lessons_owed > TheCandidates[c].lessons_owed
                           \/ /\ rec[i].lessons_owed = TheCandidates[c].lessons_owed
                              /\ PositionOf(rec[i].student_id)
                                     < PositionOf(TheCandidates[c].id)
                /\ (/\ CandidatesOwe(<<5, 5, 3, 1>>)
                    /\ response.body[r].capacity - response.body[r].current_occupants = 2)
                       => [i \in DOMAIN rec |-> rec[i].student_id]
                              = <<TheCandidates[1].id, TheCandidates[2].id>>

\* C8 witness: four candidates owing 5, 5, 3, 1 in input order, two places
\* needed, and the first two recommended in input order
C8_Witness ==
    /\ response.status = 200
    /\ Len(response.body) = 1
    /\ CandidatesOwe(<<5, 5, 3, 1>>)
    /\ response.body[1].capacity - response.body[1].current_occupants = 2
    /\ [i \in DOMAIN response.body[1].recommended_group |->
           response.body[1].recommended_group[i].student_id]
           = <<TheCandidates[1].id, TheCandidates[2].id>>


(***************************************************************************)
(* Properties of the availability and block functions                      *)
(***************************************************************************)
\* The time points of a range start-end: start, start + 30, ... up to end,
\* none unless start is strictly before end
RangePoints(range) ==
    IF range = <<>> THEN {}
    ELSE IF range[1] >= range[2] THEN {}
    ELSE {t \in range[1]..range[2] : (t - range[1]) % 30 = 0}

\* C9: a student whose availability is one range on Monday is available
\* exactly on Monday at the range's time points: start, start + 30 min, ...
\* not later than end; an inverted, empty or malformed range gives none.
C9_RangeExpansion ==
    (query.kind = "isStudentAvailable" /\ answer.kind # "none") =>
        (answer.result <=> /\ query.targetDay = Monday
                           /\ query.targetMinutes \in RangePoints(query.range))

\* C10: isStudentBlocked is true exactly when some block of the list on the
\* date asked about is a Public Holiday, a Year Level Absence whose
\* identifier is a prefix of the student's class, a Class Absence whose
\* identifier is the student's class, or a Coach Unavailable whose
\* identifier parses to the coach; the order of the list does not matter.
C10_BlockedCharacterisation ==
    (query.kind = "isStudentBlocked" /\ answer.kind # "none") =>
        (answer.result <=>
            \E b \in Range(query.blocks) :
                /\ query.blockDate # NoDate
                /\ b.block_date = query.blockDate
                /\ \/ b.block_type = "Public Holiday"
                   \/ /\ b.block_type = "Year Level Absence"
                      /\ b.identifier # <<>>
                      /\ Len(b.identifier) <= Len(query.studentDetails.class_name)
                      /\ SubSeq(query.studentDetails.class_name, 1, Len(b.identifier))
                             = b.identifier
                   \/ /\ b.block_type = "Class Absence"
                      /\ b.identifier # <<>>
                      /\ b.identifier = query.studentDetails.class_name
                   \/ /\ b.block_type = "Coach Unavailable"
                      /\ b.identifier = <<DigitChar(query.coachId)>>)

\* C10 witness: a Year Level Absence for "Year 7" on the date asked about,
\* behind a block of type Other, blocks a student of class "Year 7A"
C10_Witness ==
    /\ query.kind = "isStudentBlocked" /\ answer.kind # "none"
    /\ answer.result
    /\ query.studentDetails.class_name = Year7A
    /\ query.blocks = <<[block_type |-> "Other", identifier |-> <<>>,
                         block_date |-> query.blockDate],
                        [block_type |-> "Year Level Absence", identifier |-> Year7,
                         block_date |-> query.blockDate]>>


TheSoloCandidates ==
    {i \in DOMAIN TheCandidates : TheCandidates[i].groupOf = 1}

\* C12: for a slot with zero current occupants, stored capacity 3 and a solo
\* original occupant, the effective capacity is 1 and, where two eligible
\* solo candidates exist, the recommender answers with exactly one
\* recommendation for the slot.
C12_SoloLock ==
    (/\ response.status = 200
     /\ schedule.capacity = 3
     /\ TheSlot.current_occupants = 0
     /\ \E i \in DOMAIN schedule.original_student_ids :
            getStudentDetails(schedule.original_student_ids[i], students).groupOf = 1
     /\ Cardinality(TheSoloCandidates) >= 2)
        => /\ effectiveCapacityOf(schedule.capacity, schedule.original_student_ids,
                                  currentStudentIdsOf(schedule.original_student_ids,
                                                      statuses.absent, statuses.fillIns),
                                  students) = 1
           /\ Len(response.body) = 1
           /\ Len(response.body[1].recommended_group) = 1

(***************************************************************************)
(* Properties of the pairing checkers                                      *)
(***************************************************************************)
\* TRUE where the candidate of the query is null or undefined or has no
\* groupOf of type number
CandidateIsMalformed ==
    \/ query.newStudentDetails.type # "object"
    \/ query.newStudentDetails.value.groupOf.type # "number"

\* TRUE where the occupant list the checker works on is no array; the
\* checker of js/utils.js takes an omitted (undefined) list as the empty list
OccupantsAreMalformed ==
    /\ query.currentOccupantDetails.type # "array"
    /\ ~(answer.kind = "js/utils.js" /\ query.currentOccupantDetails.type = "undefined")

\* TRUE where the capacity of the query is no number or is less than 1
CapacityIsMalformed ==
    \/ query.slotCapacity.type # "number"
    \/ query.slotCapacity.value < 1

TheCandidatesOfSlots ==
    candidatesOfSlots(slotsNeedingFillins, potentialCandidates(students), students,
                      FetchBlocks(daily_blocks, slotsNeedingFillins))

C15_RecommendedOweLessons ==
    response.status = 200 =>
        \A r \in DOMAIN response.body :
            \A m \in DOMAIN response.body[r].recommended_group :
                /\ response.body[r].recommended_group[m].lessons_owed > 0
                /\ \A i \in DOMAIN students :
                       students[i].id = response.body[r].recommended_group[m].student_id
                           => /\ "lessons_owed" \in DOMAIN students[i]
                              /\ students[i].lessons_owed > 0

\* C15 witness: a student who owes nothing, a negative number or has no
\* value, and is not on the roster, available and not blocked, is left out of
\* a group that recommends another student
C15_Witness ==
    /\ response.status = 200
    /\ Len(response.body) = 1
    /\ Len(response.body[1].recommended_group) >= 1
    /\ \E i \in DOMAIN students :
           /\ "lessons_owed" \in DOMAIN students[i] => students[i].lessons_owed <= 0
           /\ students[i].id \notin Range(TheSlot.original_student_ids)
           /\ isStudentAvailableEdge(students[i].availability_string,
                                     TheSlot.day_of_week, TheSlot.start_time)
           /\ ~isStudentBlockedEdge(getStudentDetailsEdge(students[i].id, students)[1],
                                    TheSlot.slot_date, TheSlot.coach_id, daily_blocks)
           /\ \A j \in DOMAIN response.body[1].recommended_group :
                  response.body[1].recommended_group[j].student_id # students[i].id

(***************************************************************************)
(* Properties of the interactive tool                                      *)
(***************************************************************************)
\* The students in the slot today, by the statuses table
TheOccupants ==
    Range(currentStudentIdsOf(schedule.original_student_ids, statuses.absent,
                              statuses.fillIns))

\* No member of a recommended group is on the roster of its slot
RecommendedAreOffRoster ==
    response.status = 200 =>
        \A r \in DOMAIN response.body, s \in DOMAIN slotsNeedingFillins :
            response.body[r].schedule_id = slotsNeedingFillins[s].schedule_id
                => \A m \in DOMAIN response.body[r].recommended_group :
                       response.body[r].recommended_group[m].student_id
                           \notin Range(slotsNeedingFillins[s].original_student_ids)

\* A step that fills the suggestion box or the manual-add list anew, while
\* no request of the page is on its way, lists no student who is in the slot
\* today
SuggestedAreNotOccupants ==
    /\ (/\ session.open /\ session.requests = {}
        /\ session'.manualAdd.results # session.manualAdd.results)
           => \A i \in DOMAIN session'.manualAdd.results :
                  session'.manualAdd.results[i] \notin TheOccupants
    /\ (/\ session.open /\ session.requests = {}
        /\ suggestionBox' # suggestionBox)
           => \A i \in DOMAIN suggestionBox'.candidates :
                  suggestionBox'.candidates[i].id \notin TheOccupants

\* C16: no member of a slot's recommended group is one of the slot's
\* original students, and whenever the interactive tool lists students to
\* add to a slot, none of them is in the slot today.
C16_NoOccupantSuggested ==
    []RecommendedAreOffRoster /\ [][SuggestedAreNotOccupants]_vars

\* C17: whatever the order of Apply and manual Add clicks, upserts and
\* re-renderings, the students in the slot today are never more than the
\* capacity the original students' group size and the stored capacity give.
C17_NeverOverCapacity ==
    session.open =>
        Cardinality(TheOccupants)
            <= capacityByGroup(schedule.capacity, schedule.original_student_ids, students)

(***************************************************************************)
(* Properties of the sub-group gate                                        *)
(***************************************************************************)
\* TRUE for a row of the students table that owes a lesson, has no
\* sub-group, is not on the slot's roster, is available at the slot and not
\* blocked on its date
EligibleWithoutSubGroup(student) ==
    /\ "lessons_owed" \in DOMAIN student /\ student.lessons_owed > 0
    /\ student.sub_group = NoSubGroup
    /\ student.id \notin Range(TheSlot.original_student_ids)
    /\ isStudentAvailableEdge(student.availability_string,
                              TheSlot.day_of_week, TheSlot.start_time)
    /\ ~isStudentBlockedEdge(getStudentDetailsEdge(student.id, students)[1],
                             TheSlot.slot_date, TheSlot.coach_id, daily_blocks)

\* C18: for a slot whose roster established a sub-group, a student without
\* sub-group who meets every other condition is among the candidates the
\* filter lets through, and the recommender leaves the student out only if
\* the group is complete or the pairing rules forbid the student beside the
\* roster and the recommended members.
C18_NoSubGroupPassesGate ==
    (/\ response.status = 200
     /\ TheSlot.capacity - TheSlot.current_occupants > 0
     /\ targetSubGroup(TheSlot, students) # NoSubGroup)
        => \A i \in DOMAIN students :
               EligibleWithoutSubGroup(students[i])
                   => /\ \E c \in DOMAIN TheCandidates :
                             TheCandidates[c].id = students[i].id
                      /\ \/ \E m \in DOMAIN response.body[1].recommended_group :
                                response.body[1].recommended_group[m].student_id
                                    = students[i].id
                         \/ Len(response.body[1].recommended_group)
                                >= TheSlot.capacity - TheSlot.current_occupants
                         \/ checkPairingRuleViolationEdge(
                                getStudentDetailsEdge(students[i].id, students)[1],
                                [j \in DOMAIN GroupSizesIn(response.body[1]) |->
                                    [groupOf |-> GroupSizesIn(response.body[1])[j]]],
                                TheSlot.capacity).violation

(***************************************************************************)
(* Properties of the pairing checkers, continued                           *)
(***************************************************************************)
\* TRUE where the occupant list of the query is an array that holds a
\* student whose groupOf is one of sizes
OccupantsHold(sizes) ==
    /\ query.currentOccupantDetails.type = "array"
    /\ \E i \in DOMAIN query.currentOccupantDetails.value :
           /\ query.currentOccupantDetails.value[i].type = "object"
           /\ query.currentOccupantDetails.value[i].value.groupOf.type = "number"
           /\ query.currentOccupantDetails.value[i].value.groupOf.value \in sizes

\* C19: asked about a candidate with groupOf >= 3 and an occupant list that
\* holds a solo or a paired student, either pairing checker reports a
\* violation, whatever the capacity.
C19_GroupJoinsNoSoloOrPaired ==
    (/\ query.kind = "checkPairingRuleViolation" /\ answer.kind # "none"
     /\ ~CandidateIsMalformed
     /\ query.newStudentDetails.value.groupOf.value >= 3
     /\ OccupantsHold({1, 2}))
        => /\ ~answer.result.thrown
           /\ answer.result.violation

TheRuleCapacity ==
    IF \E i \in DOMAIN schedule.original_student_ids :
           students[schedule.original_student_ids[i]].groupOf = 1 THEN 1
    ELSE IF \E i \in DOMAIN schedule.original_student_ids :
           students[schedule.original_student_ids[i]].groupOf = 2 THEN 2
    ELSE schedule.capacity

\* C21: the effective capacity the slot's element carries is 1 if an
\* original student is solo, otherwise 2 if one is paired, otherwise the
\* stored capacity, whatever the absences and the fill-ins of the day.
C21_EffectiveCapacityRule ==
    session.open => session.slotElement.capacity = TheRuleCapacity

(***************************************************************************)
(* The greedy fill                                                         *)
(***************************************************************************)
\* The candidates replayed in sorted order against a result: TRUE where
\* every candidate that is not a member of the result was, at its turn,
\* skipped for its sub-group or refused by the pairing checker beside the
\* roster students and the members accepted before it
RECURSIVE LeftOutWereRefused(_, _, _, _, _, _)
LeftOutWereRefused(candidates, memberIds, occupants, compulsory, capacity, acceptedCount) ==
    IF candidates = <<>> THEN TRUE
    ELSE IF Head(candidates).id \in memberIds
    THEN LeftOutWereRefused(Tail(candidates), memberIds,
                            Append(occupants, Head(candidates)),
                            IF /\ acceptedCount = 0 /\ compulsory = NoSubGroup
                               /\ Head(candidates).subGroup # NoSubGroup
                            THEN Head(candidates).subGroup ELSE compulsory,
                            capacity, acceptedCount + 1)
    ELSE /\ \/ compulsory # NoSubGroup /\ Head(candidates).subGroup # compulsory
            \/ checkPairingRuleViolationEdge(Head(candidates), occupants,
                                             capacity).violation
         /\ LeftOutWereRefused(Tail(candidates), memberIds, occupants, compulsory,
                               capacity, acceptedCount)

MemberIds(result) ==
    {result.recommended_group[j].student_id : j \in DOMAIN result.recommended_group}

\* C22: where a result holds fewer members than the slot needed, every
\* candidate left out of it was, at its turn, skipped for its sub-group or
\* refused by the pairing checker beside the occupants accepted so far; the
\* members are candidates, in the candidates' order.
C22_GreedyFillsUntilExhausted ==
    response.status = 200 =>
        \A i \in DOMAIN response.body :
            /\ MemberIds(response.body[i])
                   \subseteq {TheSortedCandidates[j].id : j \in DOMAIN TheSortedCandidates}
            /\ Len(response.body[i].recommended_group)
                       < response.body[i].capacity - response.body[i].current_occupants
                   => LeftOutWereRefused(TheSortedCandidates, MemberIds(response.body[i]),
                                         existingStudentsDetails(TheSlot, students),
                                         targetSubGroup(TheSlot, students),
                                         response.body[i].capacity, 0)

\* C22 witness: a slot that needed three got two members: the first
\* candidate set the compulsory sub-group, the second was skipped for its
\* sub-group without taking a place, the third was accepted after it
C22_Witness ==
    /\ response.status = 200
    /\ Len(response.body) = 1
    /\ response.body[1].capacity - response.body[1].current_occupants = 3
    /\ Len(TheSortedCandidates) = 3
    /\ Len(response.body[1].recommended_group) = 2
    /\ response.body[1].recommended_group[1].student_id = TheSortedCandidates[1].id
    /\ response.body[1].recommended_group[2].student_id = TheSortedCandidates[3].id
    /\ TheSortedCandidates[1].subGroup # NoSubGroup
    /\ TheSortedCandidates[2].subGroup # TheSortedCandidates[1].subGroup

(***************************************************************************)
(* Independence of the slots of a request                                  *)
(***************************************************************************)
\* The response body of a request whose RPC returned that batch of slots
ResultsOfBatch(batch) ==
    serveResults(batch, potentialCandidates(students), students,
                 FetchBlocks(daily_blocks, batch))

\* The recommended groups the results hold for a slot: none where the loop
\* skipped the slot, else one
RecommendedIn(results, scheduleId) ==
    LET OfSlot(result) == result.schedule_id = scheduleId
        found == SelectSeq(results, OfSlot)
    IN  [i \in DOMAIN found |-> found[i].recommended_group]

ReverseBatch(batch) == [i \in DOMAIN batch |-> batch[Len(batch) + 1 - i]]

\* C23: every slot of a request gets the recommended group it gets in a
\* request of its own and in the request with the slots in the other order.
C23_SlotsIndependent ==
    response.status = 200 =>
        \A j \in DOMAIN slotsNeedingFillins :
            /\ RecommendedIn(response.body, slotsNeedingFillins[j].schedule_id)
                   = RecommendedIn(ResultsOfBatch(<<slotsNeedingFillins[j]>>),
                                   slotsNeedingFillins[j].schedule_id)
            /\ RecommendedIn(response.body, slotsNeedingFillins[j].schedule_id)
                   = RecommendedIn(ResultsOfBatch(ReverseBatch(slotsNeedingFillins)),
                                   slotsNeedingFillins[j].schedule_id)

\* C23 witness: a request with two slots that differ, both answered with a
\* recommended group, the first student recommended for the first slot
\* being recommended for the second slot as well
C23_Witness ==
    /\ response.status = 200
    /\ Len(slotsNeedingFillins) = 2 /\ Len(response.body) = 2
    /\ slotsNeedingFillins[1].capacity # slotsNeedingFillins[2].capacity
    /\ response.body[1].recommended_group # <<>>
    /\ \E j \in DOMAIN response.body[2].recommended_group :
           response.body[2].recommended_group[j].student_id
               = response.body[1].recommended_group[1].student_id

(***************************************************************************)
(* The roster is read-only                                                 *)
(***************************************************************************)
\* C24: a lookup of a student leaves the roster as it was: no step changes
\* a property of a student record.
C24_RosterReadOnly == [][students' = students]_vars

(***************************************************************************)
(* Properties of the students of a slot today                              *)
(***************************************************************************)
\* The students with that status today for the slot selected
StudentsWithStatus(status) ==
    {query.todaysStatuses[i].student_id :
        i \in {j \in DOMAIN query.todaysStatuses :
                  /\ query.todaysStatuses[j].lesson_schedule_id
                         = query.selectedLessonSlot.scheduleId
                  /\ query.todaysStatuses[j].status = status}}

\* The students in the slot today: the original students not marked absent
\* for it and the students assigned to it as fill-ins
ThePresentStudents ==
    (Range(query.selectedLessonSlot.originalStudentIds)
         \ StudentsWithStatus("marked_absent"))
        \cup StudentsWithStatus("assigned_fill_in")

EntriesOf(studentId) ==
    LET OfStudent(entry) == entry.student_id = studentId
    IN  SelectSeq(answer.result, OfStudent)

\* C30: the payload submitted for a slot of today holds at most one entry
\* per student: one Present entry with owed_change -1 for every student in
\* the slot, one Absent entry with owed_change 0 for every student marked
\* absent for it, and nothing else.
C30_OneEntryPerStudent ==
    (answer.kind = "handleLogSubmit" /\ answer.submitted) =>
        \A studentId \in 1..NumStudents :
            /\ Len(EntriesOf(studentId)) <= 1
            /\ studentId \in ThePresentStudents =>
                   EntriesOf(studentId) = <<[student_id |-> studentId,
                                             attendance_status |-> "Present",
                                             owed_change |-> 0 - 1]>>
            /\ studentId \in StudentsWithStatus("marked_absent") =>
                   EntriesOf(studentId) = <<[student_id |-> studentId,
                                             attendance_status |-> "Absent",
                                             owed_change |-> 0]>>
            /\ studentId \notin ThePresentStudents \cup StudentsWithStatus("marked_absent")
                   => EntriesOf(studentId) = <<>>

\* C30 witness: a payload with a present original student, an original
\* student marked absent and a fill-in
C30_Witness ==
    /\ answer.kind = "handleLogSubmit" /\ answer.submitted
    /\ Len(answer.result) = 3
    /\ \E i, j \in DOMAIN query.selectedLessonSlot.originalStudentIds :
           /\ query.selectedLessonSlot.originalStudentIds[i] \in ThePresentStudents
           /\ query.selectedLessonSlot.originalStudentIds[j]
                  \in StudentsWithStatus("marked_absent")
    /\ StudentsWithStatus("assigned_fill_in")
           \ Range(query.selectedLessonSlot.originalStudentIds) # {}

(***************************************************************************)
(* The two pairing checkers side by side                                   *)
(***************************************************************************)
\* TRUE where the query holds a candidate and a list of occupants that all
\* have a numeric groupOf and no sub-group, and a capacity of 1 or more
QueryWithoutSubGroups ==
    /\ query.kind = "checkPairingRuleViolation"
    /\ ~CandidateIsMalformed
    /\ query.newStudentDetails.value.sub_group = NoSubGroup
    /\ query.currentOccupantDetails.type = "array"
    /\ \A i \in DOMAIN query.currentOccupantDetails.value :
           /\ query.currentOccupantDetails.value[i].type = "object"
           /\ query.currentOccupantDetails.value[i].value.groupOf.type = "number"
           /\ query.currentOccupantDetails.value[i].value.sub_group = NoSubGroup
    /\ ~CapacityIsMalformed

\* C26: for students without sub-group, the verdict either pairing checker
\* gave is the verdict the other one gives for the same candidate,
\* occupants and capacity.
C26_CheckersAgree ==
    (QueryWithoutSubGroups /\ answer.kind # "none") =>
        /\ answer.result.violation
               = checkPairingRuleViolationCall(query.newStudentDetails,
                     query.currentOccupantDetails, query.slotCapacity).violation
        /\ answer.result.violation
               = checkPairingRuleViolationEdgeCall(query.newStudentDetails,
                     query.currentOccupantDetails, query.slotCapacity).violation

(***************************************************************************)
(* Properties of the realtime subscription                                 *)
(***************************************************************************)
\* C28: currentSubscriptionTable is non-null only if realtimeChannel is
\* non-null and is a channel that was created for that table, whatever
\* callbacks of earlier channels have arrived
C28_TableOnlyWithItsChannel ==
    (realtime.loaded /\ realtime.currentSubscriptionTable # NullTable)
        => /\ realtime.realtimeChannel # 0
           /\ realtime.channels[realtime.realtimeChannel].table
                  = realtime.currentSubscriptionTable

\* C27: with no channel error and no cleanup called on its own, once every
\* call of toggleTestMode and setupRealtimeSubscription has completed,
\* realtimeChannel is a channel on the table of the current mode
AllCallsCompleted ==
    \A i \in 1..Len(realtime.calls) : realtime.calls[i].pc = "done"

OnlyTogglesAndSetups ==
    /\ Len(realtime.calls) > 0
    /\ \A i \in 1..Len(realtime.calls) :
           realtime.calls[i].call \in {"toggleTestMode", "setupRealtimeSubscription"}

C27_ChannelMatchesMode ==
    (realtime.loaded /\ AllCallsCompleted /\ OnlyTogglesAndSetups
     /\ ~realtime.channelError)
        => /\ realtime.realtimeChannel # 0
           /\ realtime.channels[realtime.realtimeChannel].table
                  = TableOfMode(realtime.isTestMode)

\* C29: a cleanup that has set isCleaningUp resets it, also when
\* unsubscribe or removeChannel was rejected, so the guards of later setup
\* and cleanup calls do not refuse forever
C29_CleaningUpIsReset == realtime.isCleaningUp ~> ~realtime.isCleaningUp

\* A promise of the cleanup was rejected, the flag is reset, and the setup
\* that awaited the cleanup has subscribed a second channel
C29_Witness ==
    /\ realtime.loaded
    /\ realtime.rejection
    /\ ~realtime.isCleaningUp
    /\ Len(realtime.channels) = 2
    /\ realtime.realtimeChannel = 2

====
